------------------------ MODULE DemoArithmeticProofs ------------------------
(***************************************************************************)
(* Proofs about the numbers of all of main, for any curve that is a group  *)
(* of prime order, any field, number of parties and threshold: the group's *)
(* multiples, the keys and sums that are shared, Schnorr proofs, and       *)
(* signatures.                                                             *)
(***************************************************************************)
EXTENDS DemoArithmetic, SecretSharingProofs

(* The point at infinity is the group's identity.                           *)
LEMMA Identity ==
  ASSUME NEW P \in CurvePoints
  PROVE  /\ Infinity \in CurvePoints
         /\ Add(P, Infinity) = P
         /\ Add(Infinity, P) = P
<1>1. Infinity \in CurvePoints
  BY DEF CurvePoints
<1>2. <<P, Infinity>> \in CurvePoints \X CurvePoints
      /\ <<Infinity, P>> \in CurvePoints \X CurvePoints
  BY <1>1
<1>3. Sums[<<P, Infinity>>] = P /\ Sums[<<Infinity, P>>] = P
  BY <1>2 DEF Sums
<1> QED
  BY <1>1, <1>3 DEF Add

LEMMA OrderPrime == Order \in Nat /\ Order > 0 /\ Order > 1 /\ IsPrime(Order) /\ Base \in CurvePoints
BY CurveAssumption DEF IsPrime, CurvePoints

(* Multiples is what its recursion says.                                    *)
LEMMA MultiplesRecursion ==
  ASSUME NEW P \in CurvePoints
  PROVE  /\ Multiples[P][0] = Infinity
         /\ \A k \in 1 .. Order - 1 : Multiples[P][k] = Add(Multiples[P][k - 1], P)
         /\ \A k \in Scalar : Multiples[P][k] \in CurvePoints
<1> DEFINE step == [Q \in CurvePoints |-> Add(Q, P)]
           Body(g) == [k \in Scalar |-> IF k = 0 THEN Infinity ELSE Add(g[k - 1], P)]
           it == CHOOSE g : g = Body(g)
<1>1. step \in [CurvePoints -> CurvePoints] /\ Infinity \in CurvePoints
  BY GroupAssumption, Identity
<1>2. Order - 1 \in Nat /\ Scalar = 0 .. Order - 1
  BY OrderPrime DEF Scalar
<1>3. \A Q \in CurvePoints : step[Q] = Add(Q, P)
  OBVIOUS
<1> HIDE DEF step
<1>4. PICK f \in [Scalar -> CurvePoints] : IteratesTo(f, Order - 1, Infinity, step)
  BY <1>1, <1>2, IntervalRecursion
<1>5. f = Body(f)
  <2>1. \A k \in Scalar : k # 0 => f[k - 1] \in CurvePoints
    BY <1>2
  <2> QED
    BY <1>2, <1>3, <1>4, <2>1 DEF IteratesTo
<1>6. it = Body(it)
  <2> HIDE DEF Body
  <2> QED
    BY <1>5
<1>7. Multiples[P] = it
  BY DEF Multiples
<1> HIDE DEF it
<1>8. /\ it[0] = Infinity
      /\ \A k \in 1 .. Order - 1 : it[k] = Add(it[k - 1], P)
  BY <1>2, <1>6
<1>9. \A k \in Scalar : it[k] \in CurvePoints
  <2> DEFINE T == {k \in Scalar : it[k] \in CurvePoints}
  <2>1. 0 \in T
    BY <1>1, <1>2, <1>8
  <2>2. ASSUME NEW k \in 0 .. (Order - 1) - 1, k \in T PROVE k + 1 \in T
    <3>1. k + 1 \in 1 .. Order - 1 /\ (k + 1) - 1 = k
      BY <1>2
    <3>2. it[k + 1] = Add(it[k], P)
      BY <1>8, <3>1
    <3>3. Add(it[k], P) \in CurvePoints
      BY <2>2, GroupAssumption
    <3> QED
      BY <1>2, <3>1, <3>2, <3>3
  <2> HIDE DEF T
  <2>3. \A k \in 0 .. Order - 1 : k \in T
    BY <1>2, <2>1, <2>2, IntervalInduction
  <2> QED
    BY <1>2, <2>3 DEF T
<1> QED
  BY <1>7, <1>8, <1>9

LEMMA BaseMultiple ==
  ASSUME NEW k \in Int
  PROVE  /\ ScalarBaseMult(k) \in CurvePoints
         /\ ScalarBaseMult(k % Order) = ScalarBaseMult(k)
         /\ ScalarBaseMult(0) = Infinity
<1>1. k % Order \in Scalar /\ (k % Order) % Order = k % Order
      /\ 0 % Order = 0
  BY OrderPrime DEF Scalar
<1> QED
  BY <1>1, OrderPrime, MultiplesRecursion DEF ScalarBaseMult, ScalarMult

(* One more is G more, also when the scalar starts again from 0.            *)
LEMMA NextMultiple ==
  ASSUME NEW k \in Int
  PROVE  ScalarBaseMult(k + 1) = Add(ScalarBaseMult(k), Base)
<1> PICK r \in Scalar, q \in Int : r = k % Order /\ k = Order * q + r
  <2>1. Order \in Nat /\ Order > 0
    BY OrderPrime
  <2>2. k % Order \in 0 .. Order - 1 /\ k = Order * (k \div Order) + (k % Order)
        /\ k \div Order \in Int
    BY <2>1, Division
  <2> QED
    BY <2>2 DEF Scalar
<1>1. r \in 0 .. Order - 1
  BY DEF Scalar
<1>2. CASE r = Order - 1
  <2>1. k + 1 = Order * (q + 1) + 0
    BY <1>2, OrderPrime
  <2>2. (k + 1) % Order = 0
    <3>1. 0 \in 0 .. Order - 1 /\ q + 1 \in Int
      BY OrderPrime
    <3>2. (Order * (q + 1) + 0) % Order = 0
      BY <3>1, OrderPrime, RemainderUnique, Zenon
    <3> QED
      BY <2>1, <3>2
  <2>3. ScalarBaseMult(k + 1) = Infinity
    BY <2>2, BaseMultiple
  <2>4. ScalarBaseMult(k) = ScalarBaseMult(Order - 1)
    BY <1>2, BaseMultiple
  <2> QED
    BY <2>3, <2>4, GroupAssumption
<1>3. CASE r # Order - 1
  <2>1. r + 1 \in 1 .. Order - 1 /\ (r + 1) - 1 = r
    BY <1>1, <1>3, OrderPrime
  <2>2. k + 1 = Order * q + (r + 1)
    BY <1>1, OrderPrime
  <2>3. (k + 1) % Order = r + 1
    <3>1. r + 1 \in 0 .. Order - 1
      BY <2>1
    <3>2. (Order * q + (r + 1)) % Order = r + 1
      BY <3>1, OrderPrime, RemainderUnique, Zenon
    <3> QED
      BY <2>2, <3>2
  <2>4. Multiples[Base][r + 1] = Add(Multiples[Base][r], Base)
    BY <2>1, OrderPrime, MultiplesRecursion
  <2> QED
    BY <2>3, <2>4 DEF ScalarBaseMult, ScalarMult
<1> QED
  BY <1>2, <1>3

(* Scalars add up as their multiples of G do.                               *)
LEMMA SumOfMultiples ==
  ASSUME NEW a \in Int, NEW b \in Int
  PROVE  Add(ScalarBaseMult(a), ScalarBaseMult(b)) = ScalarBaseMult(a + b)
<1> DEFINE T == {k \in 0 .. Order - 1 :
                   Add(ScalarBaseMult(a), ScalarBaseMult(k)) = ScalarBaseMult(a + k)}
<1>1. 0 \in T
  BY OrderPrime, BaseMultiple, Identity
<1>2. ASSUME NEW k \in 0 .. (Order - 1) - 1, k \in T PROVE k + 1 \in T
  <2>1. k \in Int /\ a + k \in Int /\ k + 1 \in 0 .. Order - 1 /\ (a + k) + 1 = a + (k + 1)
    BY OrderPrime
  <2>2. /\ ScalarBaseMult(k + 1) = Add(ScalarBaseMult(k), Base)
        /\ ScalarBaseMult((a + k) + 1) = Add(ScalarBaseMult(a + k), Base)
    BY <2>1, NextMultiple
  <2>3. /\ ScalarBaseMult(a) \in CurvePoints
        /\ ScalarBaseMult(k) \in CurvePoints
        /\ Base \in CurvePoints
    BY <2>1, BaseMultiple, OrderPrime
  <2>4. Add(ScalarBaseMult(a), Add(ScalarBaseMult(k), Base))
          = Add(Add(ScalarBaseMult(a), ScalarBaseMult(k)), Base)
    BY <2>3, GroupAssumption
  <2>5. Add(ScalarBaseMult(a), ScalarBaseMult(k + 1)) = ScalarBaseMult(a + (k + 1))
    BY <1>2, <2>1, <2>2, <2>4
  <2> QED
    BY <2>1, <2>5
<1> HIDE DEF T
<1>3. \A k \in 0 .. Order - 1 : k \in T
  BY <1>1, <1>2, OrderPrime, IntervalInduction
<1>4. b % Order \in 0 .. Order - 1
  BY OrderPrime, Division
<1>5. Add(ScalarBaseMult(a), ScalarBaseMult(b % Order)) = ScalarBaseMult(a + (b % Order))
  BY <1>3, <1>4 DEF T
<1>6. (a + (b % Order)) % Order = (a + b) % Order
  BY OrderPrime, SumRemainder, Zenon
<1>7. ScalarBaseMult(a + (b % Order)) = ScalarBaseMult(a + b)
  BY <1>6 DEF ScalarBaseMult, ScalarMult
<1> QED
  BY <1>5, <1>7, BaseMultiple

(* A multiple of a multiple of G is the multiple by the product.            *)
LEMMA MultipleOfMultiple ==
  ASSUME NEW d \in Int, NEW k \in Int
  PROVE  ScalarMult(ScalarBaseMult(d), k) = ScalarBaseMult(d * k)
<1> DEFINE P == ScalarBaseMult(d)
           T == {i \in 0 .. Order - 1 : Multiples[P][i] = ScalarBaseMult(d * i)}
<1>1. P \in CurvePoints
  BY BaseMultiple
<1>2. /\ Multiples[P][0] = Infinity
      /\ \A i \in 1 .. Order - 1 : Multiples[P][i] = Add(Multiples[P][i - 1], P)
  BY <1>1, MultiplesRecursion
<1> HIDE DEF P
<1>3. 0 \in T
  <2>1. d * 0 = 0
    OBVIOUS
  <2> QED
    BY <1>2, <2>1, OrderPrime, BaseMultiple
<1>4. ASSUME NEW i \in 0 .. (Order - 1) - 1, i \in T PROVE i + 1 \in T
  <2>1. i + 1 \in 1 .. Order - 1 /\ (i + 1) - 1 = i /\ i \in Int
    BY OrderPrime
  <2>2. Multiples[P][i + 1] = Add(ScalarBaseMult(d * i), P)
    BY <1>2, <1>4, <2>1
  <2>3. PICK e \in Int : e = d * i /\ d * (i + 1) = e + d
    BY <2>1
  <2>4. Add(ScalarBaseMult(e), ScalarBaseMult(d)) = ScalarBaseMult(e + d)
    BY SumOfMultiples
  <2>5. Multiples[P][i + 1] = ScalarBaseMult(d * (i + 1))
    BY <2>2, <2>3, <2>4 DEF P
  <2> QED
    BY <2>1, <2>5
<1> HIDE DEF T
<1>5. \A i \in 0 .. Order - 1 : i \in T
  BY <1>3, <1>4, OrderPrime, IntervalInduction
<1>6. PICK r \in 0 .. Order - 1 : r = k % Order
  BY OrderPrime, Division
<1>7. Multiples[P][r] = ScalarBaseMult(d * r)
  BY <1>5 DEF T
<1>8. (d * (k % Order)) % Order = (d * k) % Order
  BY OrderPrime, ProductRemainder, Zenon
<1>9. ScalarBaseMult(d * r) = ScalarBaseMult(d * k)
  BY <1>6, <1>8 DEF ScalarBaseMult, ScalarMult
<1> QED
  BY <1>6, <1>7, <1>9 DEF P, ScalarMult

(* Different scalars have different multiples of G.                         *)
LEMMA MultiplesDiffer ==
  ASSUME NEW a \in Int, NEW b \in Int, ScalarBaseMult(a) = ScalarBaseMult(b)
  PROVE  a % Order = b % Order
<1>1. PICK e \in Int : e = 0 - b
  OBVIOUS
<1>2. PICK c \in Int : c = a + e
  OBVIOUS
<1>3. /\ Add(ScalarBaseMult(a), ScalarBaseMult(e)) = ScalarBaseMult(c)
      /\ Add(ScalarBaseMult(b), ScalarBaseMult(e)) = ScalarBaseMult(0)
  <2>1. b + e = 0
    BY <1>1
  <2> QED
    BY <1>2, <2>1, SumOfMultiples
<1>4. ScalarBaseMult(c) = Infinity
  BY <1>3, BaseMultiple
<1>5. c % Order = 0
  <2>1. c % Order \in 0 .. Order - 1
    BY OrderPrime, Division
  <2>2. ScalarBaseMult(c % Order) = Infinity
    BY <1>4, BaseMultiple
  <2> QED
    BY <2>1, <2>2, GroupAssumption
<1>6. PICK q \in Int : c = Order * q
  BY <1>5, OrderPrime, Division
<1>7. a = b + Order * q
  BY <1>1, <1>2, <1>6
<1>8. (b + Order * q) % Order = b % Order
  BY OrderPrime, MultipleAdded, Zenon
<1> QED
  BY <1>7, <1>8

(* Adding up multiples of G, as a fold does, adds up the scalars.           *)
PointFold(f, S) ==
  CHOOSE g : g = [A \in SUBSET S |->
                    IF A = {} THEN Infinity ELSE Add(f[AnyOf(A)], g[A \ {AnyOf(A)}])]

LEMMA PointSum ==
  ASSUME NEW S, IsFiniteSet(S), NEW e, \A i \in S : e[i] \in Int,
         NEW f, DOMAIN f = S, \A i \in S : f[i] = ScalarBaseMult(e[i])
  PROVE  FoldFunction(Add, Infinity, f) = ScalarBaseMult(SumFunctionOnSet(e, S))
<1> DEFINE h == [A \in SUBSET S |-> ScalarBaseMult(SumFunctionOnSet(e, A))]
           Body(g) == [A \in SUBSET S |->
             IF A = {} THEN Infinity ELSE Add(f[AnyOf(A)], g[A \ {AnyOf(A)}])]
           it == PointFold(f, S)
<1>1. h[{}] = Infinity
  <2>1. SumFunctionOnSet(e, {}) = 0
    BY SumStep
  <2> QED
    BY <2>1, BaseMultiple
<1>2. ASSUME NEW A \in (SUBSET S) \ {{}}
      PROVE  h[A] = Add(f[AnyOf(A)], h[A \ {AnyOf(A)}])
  <2>1. PICK x \in S, B \in SUBSET S : x = AnyOf(A) /\ B = A \ {AnyOf(A)}
    BY AnyElement
  <2>2. PICK p \in Int, u \in Int : p = SumFunctionOnSet(e, B) /\ u = e[x]
    BY SumStep
  <2>3. SumFunctionOnSet(e, A) = u + p
    BY <2>1, <2>2, SumStep
  <2>4. Add(ScalarBaseMult(u), ScalarBaseMult(p)) = ScalarBaseMult(u + p)
    BY SumOfMultiples
  <2> QED
    BY <2>1, <2>2, <2>3, <2>4
<1>3. h = Body(h)
  <2>1. DOMAIN h = SUBSET S /\ h = [A \in SUBSET S |-> h[A]]
    OBVIOUS
  <2> HIDE DEF h
  <2> QED
    BY <1>1, <1>2, <2>1
<1>4. it = Body(it)
  <2>1. it = CHOOSE g : g = Body(g)
    BY DEF PointFold
  <2> HIDE DEF Body, it, h
  <2> QED
    BY <1>3, <2>1
<1>5. FoldFunction(Add, Infinity, f) = it[S]
  BY DEF FoldFunction, FoldFunctionOnSet, MapThenFoldSet, PointFold, AnyOf
<1> HIDE DEF it
<1>6. \A A \in SUBSET S : it[A] = h[A]
  <2> DEFINE T == {A \in SUBSET S : it[A] = h[A]}
  <2>1. it[{}] = Infinity
        /\ \A A \in (SUBSET S) \ {{}} : it[A] = Add(f[AnyOf(A)], it[A \ {AnyOf(A)}])
    BY <1>4
  <2> HIDE DEF h
  <2>2. {} \in T
    BY <1>1, <2>1
  <2>3. ASSUME NEW A \in (SUBSET S) \ {{}}, A \ {AnyOf(A)} \in T PROVE A \in T
    BY <1>2, <2>1, <2>3
  <2> HIDE DEF T
  <2>4. \A A \in SUBSET S : A \in T
    BY <2>2, <2>3, AnyInduction
  <2> QED
    BY <2>4 DEF T
<1> QED
  BY <1>5, <1>6
-----------------------------------------------------------------------------
(* The parties.                                                             *)
LEMMA PartiesFacts ==
  /\ NumParties \in Nat /\ NumParties < Order /\ NumParties < Prime
  /\ Threshold \in Nat /\ Threshold >= 2 /\ Threshold <= NumParties
  /\ IsFiniteSet(Parties) /\ Cardinality(Parties) = NumParties
  /\ \A n \in Parties : n \in Nat /\ n + 1 \in 1 .. NumParties
  /\ Prime \in Nat /\ Prime > 0 /\ IsPrime(Prime)
  /\ NumParties - 1 \in Int
<1>1. NumParties \in Nat /\ NumParties < Order /\ Threshold \in 2 .. NumParties
      /\ NumParties < Prime
  BY PartiesAssumption, SharingAssumption
<1>2. Prime \in Nat /\ Prime > 0 /\ IsPrime(Prime)
  BY SharingAssumption DEF IsPrime
<1>3. NumParties - 1 \in Int
  BY <1>1
<1>4. IsFiniteSet(0 .. NumParties - 1) /\ Cardinality(0 .. NumParties - 1) = NumParties
  BY <1>1, <1>3, FS_Interval
<1>5. \A n \in Parties : n \in Nat /\ n + 1 \in 1 .. NumParties
  BY <1>1 DEF Parties
<1> QED
  BY <1>1, <1>2, <1>3, <1>4, <1>5 DEF Parties

(* What a dealer's turn does to the sums.                                   *)
LEMMA ReceivedType ==
  ASSUME NEW m \in Nat, m > 0, NEW sums \in [Parties -> 0 .. m - 1], NEW value \in Int,
         NEW c \in Coefficients(value, Threshold, m)
  PROVE  /\ Received(sums, c, m) \in [Parties -> 0 .. m - 1]
         /\ \A n \in Parties :
              /\ EvaluatePolynomial(c, n + 1, m) \in Int
              /\ Congruent(Received(sums, c, m)[n],
                           sums[n] + EvaluatePolynomial(c, n + 1, m), m)
<1>1. c \in Seq(Int) /\ c # <<>>
  BY PartiesFacts, CoefficientsType
<1>2. ASSUME NEW n \in Parties
      PROVE  /\ EvaluatePolynomial(c, n + 1, m) \in Int
             /\ Received(sums, c, m)[n] \in 0 .. m - 1
             /\ Congruent(Received(sums, c, m)[n],
                          sums[n] + EvaluatePolynomial(c, n + 1, m), m)
  <2>1. n \in Parties /\ n + 1 \in 1 .. NumParties /\ n + 1 \in Int
    BY PartiesFacts
  <2>2. EvaluatePolynomial(c, n + 1, m) \in Int
    BY <1>1, <2>1, EvaluatePolynomialType
  <2>3. Shares(c, NumParties, m)[n + 1].Y = EvaluatePolynomial(c, n + 1, m)
    BY <2>1 DEF Shares
  <2> PICK w \in Int : w = sums[n] + EvaluatePolynomial(c, n + 1, m)
    BY <2>2
  <2>4. Received(sums, c, m)[n] = w % m
    BY <2>3 DEF Received
  <2>5. w % m \in 0 .. m - 1 /\ Congruent(w % m, w, m)
    BY Division, CongruentRemainder
  <2> QED
    BY <2>2, <2>4, <2>5
<1>3. DOMAIN Received(sums, c, m) = Parties
      /\ Received(sums, c, m) = [n \in Parties |-> Received(sums, c, m)[n]]
  BY DEF Received
<1>4. Received(sums, c, m) \in [Parties -> 0 .. m - 1]
  BY <1>2, <1>3
<1> QED
  BY <1>2, <1>4

LEMMA SharesOfParties ==
  ASSUME NEW f \in [Parties -> Scalar]
  PROVE  /\ SumFunction(f) \in Int
         /\ SumOver(f, Order) \in Scalar
<1>1. IsFiniteSet(Parties) /\ DOMAIN f = Parties /\ \A n \in Parties : f[n] \in Int
  BY PartiesFacts, OrderPrime DEF Scalar
<1>2. SumFunctionOnSet(f, Parties) \in Int
  BY <1>1, SumStep
<1> PICK w \in Int : w = SumFunction(f)
  BY <1>1, <1>2 DEF SumFunction
<1>3. w % Order \in 0 .. Order - 1
  BY OrderPrime, Division
<1> QED
  BY <1>3 DEF SumOver, Scalar

LEMMA AbscissaType ==
  ASSUME NEW P \in CurvePoints
  PROVE  Abscissa(P) \in Scalar
<1>1. FieldPrime \in Nat
  BY CurveAssumption DEF IsPrime
<1> PICK x \in Int : x = P[1]
  BY <1>1 DEF CurvePoints, Affine, Coordinate, Infinity
<1>2. x % Order \in 0 .. Order - 1
  BY OrderPrime, Division
<1> QED
  BY <1>2 DEF Abscissa, Scalar

(* The nonce that the first Threshold nonce shares interpolate to.          *)
LEMMA NonceType ==
  ASSUME nonceShare \in [Parties -> Scalar], NEW order \in Injection(1 .. Threshold, Parties)
  PROVE  Reconstruct(NoncePoints(order), Order) \in Scalar
<1> DEFINE points == NoncePoints(order)
           S == 1 .. Threshold
           X == [x \in S |-> x]
           y == [x \in S |-> nonceShare[order[x]]]
<1>1. Order \in Nat /\ IsPrime(Order)
  BY OrderPrime
<1>2. IsFiniteSet(S)
  BY PartiesFacts, FS_Interval
<1>3. \A x \in S : X[x] \in 0 .. Order - 1 /\ X[x] = x
  BY <1>1, PartiesFacts
<1>4. order \in [S -> Parties]
  BY DEF Injection
<1>5. DOMAIN points = S
      /\ \A x \in S : points[x].X = X[x] /\ points[x].Y = y[x] /\ y[x] \in Int
  BY <1>1, <1>4 DEF NoncePoints, Scalar
<1> HIDE DEF X, y, S
<1>6. Abscissas(X, DOMAIN points, Order)
  BY <1>1, <1>2, <1>3, <1>5, SmallAbscissas
<1> HIDE DEF points
<1>7. Reconstruct(points, Order) \in 0 .. Order - 1
  BY <1>5, <1>6, ReconstructInterpolates
<1> QED
  BY <1>7 DEF points, Scalar
-----------------------------------------------------------------------------
(* The types of what does not depend on where main is.                      *)
Typed ==
  /\ pc \in {"deal", "nonce", "proved", "signed", "verified", "failed", "panicked",
             "combine", "combined", "sum", "summed", "shared"}
  /\ todo \subseteq Parties
  /\ secretSum \in Scalar
  /\ keyShare \in [Parties -> Scalar]
  /\ publicKey \in CurvePoints
  /\ nonceShare \in [Parties -> Scalar]
  /\ hash \in Nat
  /\ valid \in BOOLEAN \cup {Nil}
  /\ sumShare \in [Parties -> 0 .. Prime - 1]
  /\ expected \in Nat

LEMMA Zeros ==
  /\ NoSum \in [Parties -> Scalar]
  /\ NoSum \in [Parties -> 0 .. Prime - 1]
  /\ 0 \in Scalar
  /\ Infinity \in CurvePoints
BY OrderPrime, PartiesFacts, Identity DEF NoSum, Scalar

LEMMA TypedInit == DemoInit => Typed
BY Zeros DEF DemoInit, Init, Typed

(* The steps that compute something.                                        *)
LEMMA DealingTyped ==
  ASSUME Typed, NEW n \in todo
  PROVE  /\ GenerateSecretShare(n) => secretSum' \in Scalar /\ keyShare' \in [Parties -> Scalar]
         /\ GenerateNonceShare(n) => nonceShare' \in [Parties -> Scalar]
         /\ ShareSecret(n) => /\ sumShare' \in [Parties -> 0 .. Prime - 1]
                              /\ expected' \in Nat
<1>1. Scalar = 0 .. Order - 1 /\ Order \in Nat /\ Order > 0 /\ Prime \in Nat /\ Prime > 0
  BY OrderPrime, PartiesFacts DEF Scalar
<1>2. ASSUME GenerateSecretShare(n)
      PROVE  secretSum' \in Scalar /\ keyShare' \in [Parties -> Scalar]
  <2>0. PICK s \in Scalar : \E c \in Coefficients(s, Threshold, Order) :
          /\ keyShare' = Received(keyShare, c, Order)
          /\ secretSum' = (secretSum + s) % Order
    BY <1>2 DEF GenerateSecretShare
  <2>1. PICK c \in Coefficients(s, Threshold, Order) :
          /\ keyShare' = Received(keyShare, c, Order)
          /\ secretSum' = (secretSum + s) % Order
    BY <2>0
  <2>2. keyShare' \in [Parties -> Scalar]
    <3>1. keyShare \in [Parties -> 0 .. Order - 1] /\ s \in Int
      BY <1>1 DEF Typed
    <3>2. Received(keyShare, c, Order) \in [Parties -> 0 .. Order - 1]
      BY <1>1, <3>1, ReceivedType
    <3> QED
      BY <1>1, <2>1, <3>2
  <2> PICK w \in Int : w = secretSum + s
    BY <1>1 DEF Typed
  <2>3. w % Order \in Scalar
    BY <1>1, Division
  <2> QED
    BY <2>1, <2>2, <2>3
<1>3. ASSUME GenerateNonceShare(n) PROVE nonceShare' \in [Parties -> Scalar]
  <2>0. PICK s \in Scalar : \E c \in Coefficients(s, Threshold, Order) :
          nonceShare' = Received(nonceShare, c, Order)
    BY <1>3 DEF GenerateNonceShare
  <2>1. PICK c \in Coefficients(s, Threshold, Order) :
          nonceShare' = Received(nonceShare, c, Order)
    BY <2>0
  <2>2. nonceShare \in [Parties -> 0 .. Order - 1] /\ s \in Int
    BY <1>1 DEF Typed
  <2>3. Received(nonceShare, c, Order) \in [Parties -> 0 .. Order - 1]
    BY <1>1, <2>2, ReceivedType
  <2> QED
    BY <1>1, <2>1, <2>3
<1>4. ASSUME ShareSecret(n)
      PROVE  sumShare' \in [Parties -> 0 .. Prime - 1] /\ expected' \in Nat
  <2>0. PICK value \in Secrets : \E c \in Coefficients(value, Threshold, Prime) :
          /\ sumShare' = Received(sumShare, c, Prime)
          /\ expected' = expected + ReducedInPlace(value)
    BY <1>4 DEF ShareSecret
  <2>1. PICK c \in Coefficients(value, Threshold, Prime) :
          /\ sumShare' = Received(sumShare, c, Prime)
          /\ expected' = expected + ReducedInPlace(value)
    BY <2>0
  <2>2. value \in Int
    BY SharingAssumption
  <2>3. sumShare' \in [Parties -> 0 .. Prime - 1]
    BY <1>1, <2>1, <2>2, ReceivedType DEF Typed
  <2>4. ReducedInPlace(value) \in 0 .. Prime - 1
    BY <1>1, <2>2, Division DEF ReducedInPlace
  <2> QED
    BY <2>1, <2>3, <2>4 DEF Typed
<1> QED
  BY <1>2, <1>3, <1>4

LEMMA PublicKeyIs ==
  ASSUME Typed, CombinePublicKeyShares
  PROVE  /\ SumFunction(keyShare) \in Int
         /\ publicKey' = ScalarBaseMult(SumFunction(keyShare))
         /\ publicKey' \in CurvePoints
<1>1. IsFiniteSet(Parties) /\ DOMAIN keyShare = Parties /\ \A n \in Parties : keyShare[n] \in Int
  BY PartiesFacts, OrderPrime DEF Scalar, Typed
<1> DEFINE f == [n \in Parties |-> ScalarBaseMult(keyShare[n])]
<1>2. DOMAIN f = Parties /\ \A n \in Parties : f[n] = ScalarBaseMult(keyShare[n])
  OBVIOUS
<1>3. publicKey' = FoldFunction(Add, Infinity, f)
  BY DEF CombinePublicKeyShares
<1> HIDE DEF f
<1>4. FoldFunction(Add, Infinity, f) = ScalarBaseMult(SumFunctionOnSet(keyShare, Parties))
  BY <1>1, <1>2, PointSum
<1>5. SumFunction(keyShare) = SumFunctionOnSet(keyShare, Parties) /\ SumFunction(keyShare) \in Int
  BY <1>1, SumStep DEF SumFunction
<1> QED
  BY <1>3, <1>4, <1>5, BaseMultiple

LEMMA TypedStep == Typed /\ [Next]_vars => Typed'
<1> SUFFICES ASSUME Typed, [Next]_vars PROVE Typed'
  OBVIOUS
<1>1. ASSUME NEW n \in todo, GenerateSecretShare(n), UNCHANGED sharingVars PROVE Typed'
  BY <1>1, DealingTyped DEF Typed, GenerateSecretShare, sharingVars
<1>2. ASSUME NEW n \in todo, GenerateNonceShare(n), UNCHANGED sharingVars PROVE Typed'
  BY <1>2, DealingTyped DEF Typed, GenerateNonceShare, sharingVars
<1>3. ASSUME NEW n \in todo, ReceiveSignatureShare(n), UNCHANGED sharingVars PROVE Typed'
  BY <1>3 DEF Typed, ReceiveSignatureShare, sharingVars
<1>4. ASSUME CombinePublicKeyShares, UNCHANGED sharingVars PROVE Typed'
  BY <1>4, PublicKeyIs DEF Typed, CombinePublicKeyShares, sharingVars
<1>5. ASSUME NEW n \in Parties, ProveShare(n), UNCHANGED sharingVars PROVE Typed'
  BY <1>5 DEF Typed, ProveShare, sharingVars
<1>6. ASSUME Sign, UNCHANGED sharingVars PROVE Typed'
  <2>1. hash' \in Hashes
    BY <1>6 DEF Sign
  <2> QED
    BY <1>6, <2>1, PartiesAssumption DEF Typed, Sign, sharingVars
<1>7. ASSUME SignFails, UNCHANGED sharingVars PROVE Typed'
  BY <1>7 DEF Typed, SignFails, sharingVars
<1>8. ASSUME Verify, UNCHANGED sharingVars PROVE Typed'
  <2>1. valid' \in BOOLEAN
    BY <1>8 DEF Verify, VerifyWithCurve
  <2> QED
    BY <1>8, <2>1 DEF Typed, Verify, sharingVars
<1>9. ASSUME VerifyPanics, UNCHANGED sharingVars PROVE Typed'
  BY <1>9 DEF Typed, VerifyPanics, sharingVars
<1>10. ASSUME CombineRPoints, UNCHANGED sharingVars PROVE Typed'
  <2>1. hash' \in Hashes
    BY <1>10 DEF CombineRPoints
  <2> QED
    BY <1>10, <2>1, PartiesAssumption DEF Typed, CombineRPoints, sharingVars
<1>11. ASSUME CombineSignatureShares, UNCHANGED sharingVars PROVE Typed'
  BY <1>11 DEF Typed, CombineSignatureShares, sharingVars
<1>12. CASE StartSum
  BY <1>12, Zeros DEF Typed, StartSum, sharingVars
<1>13. ASSUME NEW n \in todo, ShareSecret(n) PROVE Typed'
  BY <1>13, DealingTyped DEF Typed, ShareSecret
<1>14. CASE ReconstructSum
  BY <1>14 DEF Typed, ReconstructSum
<1>15. CASE ShareOne
  BY <1>15, Zeros DEF Typed, ShareOne
<1>16. CASE UNCHANGED vars
  BY <1>16 DEF Typed, vars, ecdsaVars, sharingVars
<1> QED
  BY <1>1, <1>2, <1>3, <1>4, <1>5, <1>6, <1>7, <1>8, <1>9, <1>10, <1>11, <1>12, <1>13,
     <1>14, <1>15, <1>16 DEF Next, ECDSANext
-----------------------------------------------------------------------------
(* Schnorr proofs.  A proof is of a key share the node still has.           *)
ProofOfShare ==
  \/ proof = Nil
  \/ /\ pc = "proved"
     /\ \E n \in Parties, context \in Int, random \in Scalar :
          proof = [node |-> n, context |-> context,
                   proof |-> ProveSignatureShare(keyShare[n], context, random)]

(* Dividing by 256 again and again.                                         *)
Divides(f, last, n) ==
  \A k \in 0 .. last : f[k] = IF k = 0 THEN n ELSE f[k - 1] \div 256

LEMMA Quotients ==
  ASSUME NEW last \in Nat, NEW n \in Nat
  PROVE  \E f \in [0 .. last -> Nat] : Divides(f, last, n)
<1> DEFINE step == [x \in Nat |-> x \div 256]
<1>1. step \in [Nat -> Nat] /\ \A x \in Nat : step[x] = x \div 256
  OBVIOUS
<1> HIDE DEF step
<1>2. PICK f \in [0 .. last -> Nat] : IteratesTo(f, last, n, step)
  BY <1>1, IntervalRecursion
<1>3. \A k \in 0 .. last : k # 0 => f[k - 1] \in Nat
  OBVIOUS
<1>4. Divides(f, last, n)
  BY <1>1, <1>2, <1>3 DEF IteratesTo, Divides
<1> QED
  BY <1>4

(* The bytes of a number add up to a number.                                *)
LEMMA ByteSumType ==
  ASSUME NEW n \in Nat
  PROVE  ByteSum(n) \in Int
<1> PICK last \in Nat : last = n \div 256
  OBVIOUS
<1> DEFINE Body(g) == [j \in 0 .. last |-> IF j = 0 THEN n ELSE g[j - 1] \div 256]
           it == CHOOSE g : g = Body(g)
<1>2. PICK f \in [0 .. last -> Nat] : Divides(f, last, n)
  BY Quotients
<1>3. f = Body(f)
  BY <1>2 DEF Divides
<1>4. it = Body(it)
  <2> HIDE DEF Body
  <2> QED
    BY <1>3
<1> HIDE DEF it
<1>5. \A j \in 0 .. last : it[j] = f[j]
  <2> DEFINE T == {j \in 0 .. last : it[j] = f[j]}
  <2>1. 0 \in T
    BY <1>3, <1>4
  <2>2. ASSUME NEW j \in 0 .. last - 1, j \in T PROVE j + 1 \in T
    BY <1>3, <1>4, <2>2
  <2> HIDE DEF T
  <2>3. \A j \in 0 .. last : j \in T
    BY <2>1, <2>2, IntervalInduction
  <2> QED
    BY <2>3 DEF T
<1> DEFINE d == [j \in 0 .. last |-> it[j] % 256]
<1>6. ByteSum(n) = SumFunctionOnSet(d, 0 .. last)
  BY DEF ByteSum, SumFunction, it
<1>7. \A j \in 0 .. last : d[j] \in Int
  BY <1>5
<1> HIDE DEF d
<1>8. IsFiniteSet(0 .. last)
  BY FS_Interval
<1> QED
  BY <1>6, <1>7, <1>8, SumStep

LEMMA ProofStep == Typed /\ ProofOfShare /\ [Next]_vars => ProofOfShare'
<1> SUFFICES ASSUME Typed, ProofOfShare, [Next]_vars PROVE ProofOfShare'
  OBVIOUS
<1>1. ASSUME NEW n \in Parties, ProveShare(n) PROVE ProofOfShare'
  <2>1. PICK r \in {Abscissa(P) : P \in CurvePoints}, h \in Hashes, s \in Scalar,
             random \in Scalar :
          proof' = [node |-> n, context |-> ShareContext(r, h, s),
                    proof |-> ProveSignatureShare(keyShare[n], ShareContext(r, h, s), random)]
    BY <1>1 DEF ProveShare
  <2>2. r \in Nat /\ h \in Nat /\ s \in Nat
    BY AbscissaType, OrderPrime, PartiesAssumption DEF Scalar
  <2> PICK context \in Int : context = ShareContext(r, h, s)
    BY <2>2, ByteSumType DEF ShareContext
  <2>3. keyShare' = keyShare /\ pc' = "proved"
    BY <1>1 DEF ProveShare
  <2> QED
    BY <2>1, <2>3 DEF ProofOfShare, ProveSignatureShare, ProveKnowledge
<1>2. CASE UNCHANGED vars
  BY <1>2 DEF ProofOfShare, vars, ecdsaVars, ProveSignatureShare, ProveKnowledge
<1>3. ASSUME pc # "proved", proof' = proof PROVE ProofOfShare'
  BY <1>3 DEF ProofOfShare
<1>4. ASSUME Next, ~ \E n \in Parties : ProveShare(n) PROVE pc # "proved" /\ proof' = proof
  BY <1>4 DEF Next, ECDSANext, GenerateSecretShare, GenerateNonceShare, ReceiveSignatureShare,
     CombinePublicKeyShares, Sign, SignFails, Verify, VerifyPanics, CombineRPoints,
     CombineSignatureShares, StartSum, ShareSecret, ReconstructSum, ShareOne
<1> QED
  BY <1>1, <1>2, <1>3, <1>4

LEMMA ChallengeType ==
  ASSUME NEW R \in CurvePoints, NEW P \in CurvePoints, NEW context \in Int
  PROVE  Challenge(R, P, context) \in 1 .. Order - 1
<1>1. FieldPrime \in Nat
  BY CurveAssumption DEF IsPrime
<1>2. R[1] \in Int /\ R[2] \in Int /\ P[1] \in Int /\ P[2] \in Int
  BY <1>1 DEF CurvePoints, Affine, Coordinate, Infinity
<1> PICK w \in Int : w = R[1] + R[2] + P[1] + P[2] + context
  BY <1>2
<1>3. w % Order \in 0 .. Order - 1
  BY OrderPrime, Division
<1>4. Challenge(R, P, context) = IF w % Order = 0 THEN 1 ELSE w % Order
  BY DEF Challenge
<1> QED
  BY <1>3, <1>4, OrderPrime

(* What is known of a proof that was made: the response is the one scalar   *)
(* that fits, and the points are at infinity as the scalars are 0.          *)
LEMMA ProofFacts ==
  ASSUME NEW d \in Scalar, NEW context \in Int, NEW random \in Scalar,
         NEW made, made = ProveSignatureShare(d, context, random)
  PROVE  /\ made.R \in CurvePoints
         /\ made.Challenge = Challenge(made.R, ScalarBaseMult(d), context)
         /\ made.Challenge # 0
         /\ made.Response \in Scalar
         /\ \A z \in Scalar : ScalarBaseMult(z) = Add(made.R, ScalarMult(ScalarBaseMult(d), made.Challenge))
                                <=> z = made.Response
<1>1. d \in Int /\ random \in Int /\ \A z \in Scalar : z \in Int /\ z % Order = z
  BY OrderPrime, SmallRemainder DEF Scalar
<1>2. ScalarBaseMult(random) \in CurvePoints /\ ScalarBaseMult(d) \in CurvePoints
  BY <1>1, BaseMultiple
<1>3. PICK c \in 1 .. Order - 1 : c = Challenge(ScalarBaseMult(random), ScalarBaseMult(d), context)
  BY <1>2, ChallengeType
<1>4. c \in Int /\ c # 0
  BY OrderPrime
<1> PICK w \in Int, v \in Int : v = d * c /\ w = c * d + random /\ w = random + v
  BY <1>1, <1>4
<1>5. made = [R |-> ScalarBaseMult(random), Challenge |-> c, Response |-> w % Order]
  BY <1>3 DEF ProveSignatureShare, ProveKnowledge
<1>6. w % Order \in Scalar
  BY OrderPrime, Division DEF Scalar
<1>7. Add(made.R, ScalarMult(ScalarBaseMult(d), made.Challenge)) = ScalarBaseMult(w)
  <2>1. ScalarMult(ScalarBaseMult(d), c) = ScalarBaseMult(v)
    BY <1>1, <1>4, MultipleOfMultiple
  <2>2. Add(ScalarBaseMult(random), ScalarBaseMult(v)) = ScalarBaseMult(random + v)
    BY <1>1, SumOfMultiples
  <2> QED
    BY <1>5, <2>1, <2>2
<1>8. ASSUME NEW z \in Scalar
      PROVE  ScalarBaseMult(z) = ScalarBaseMult(w) <=> z = w % Order
  <2>1. ASSUME ScalarBaseMult(z) = ScalarBaseMult(w) PROVE z = w % Order
    BY <1>1, <2>1, MultiplesDiffer
  <2>2. ScalarBaseMult(w % Order) = ScalarBaseMult(w)
    BY BaseMultiple
  <2> QED
    BY <2>1, <2>2
<1> QED
  BY <1>2, <1>3, <1>4, <1>5, <1>6, <1>7, <1>8

LEMMA OnCurve ==
  ASSUME NEW P \in CurvePoints
  PROVE  IsOnCurve(P) <=> P # Infinity
BY CurveAssumption DEF IsOnCurve, CurvePoints

LEMMA InfinityOfScalar ==
  ASSUME NEW k \in Scalar
  PROVE  ScalarBaseMult(k) = Infinity <=> k = 0
<1>1. k = 0 \/ k \in 1 .. Order - 1
  BY OrderPrime DEF Scalar
<1>2. ScalarBaseMult(0) = Infinity
  BY BaseMultiple
<1> QED
  BY <1>1, <1>2, GroupAssumption

LEMMA ResponsesChecked == Typed /\ ProofOfShare => OnlyTrueResponse
<1> SUFFICES ASSUME Typed, ProofOfShare, proof # Nil
             PROVE  \A z \in Responses :
                      VerifyProof([proof.proof EXCEPT !.Response = z],
                                  ScalarBaseMult(keyShare[proof.node]), proof.context)
                        <=> z % Order = proof.proof.Response
  BY DEF OnlyTrueResponse
<1>1. PICK n \in Parties, context \in Int, random \in Scalar :
        proof = [node |-> n, context |-> context,
                 proof |-> ProveSignatureShare(keyShare[n], context, random)]
  BY DEF ProofOfShare
<1>2. PICK d \in Scalar : d = keyShare[n]
  BY DEF Typed
<1>3. PICK made : made = ProveSignatureShare(d, context, random)
  OBVIOUS
<1>4. /\ proof.proof = made /\ keyShare[proof.node] = d /\ proof.context = context
      /\ made = [R |-> made.R, Challenge |-> made.Challenge, Response |-> made.Response]
  BY <1>1, <1>2, <1>3 DEF ProveSignatureShare, ProveKnowledge
<1>5. /\ made.Challenge = Challenge(made.R, ScalarBaseMult(d), context)
      /\ made.Response \in Scalar
      /\ \A z \in Scalar : ScalarBaseMult(z) = Add(made.R, ScalarMult(ScalarBaseMult(d), made.Challenge))
                                <=> z = made.Response
  BY <1>3, ProofFacts
<1>6. ASSUME NEW z \in Responses
      PROVE  VerifyProof([made EXCEPT !.Response = z], ScalarBaseMult(d), context)
               <=> z % Order = made.Response
  <2>1. PICK other : other = [made EXCEPT !.Response = z]
    OBVIOUS
  <2>2. other.R = made.R /\ other.Challenge = made.Challenge /\ other.Response = z
    BY <1>4, <2>1
  <2>3. z \in Int
    BY PartiesAssumption
  <2>4. ScalarBaseMult(z % Order) = ScalarBaseMult(z) /\ z % Order \in Scalar
    BY <2>3, BaseMultiple, OrderPrime, Division DEF Scalar
  <2>5. VerifyProof(other, ScalarBaseMult(d), context) <=> z % Order = made.Response
    BY <1>5, <2>2, <2>4 DEF VerifyProof, ResponseFits
  <2> QED
    BY <2>1, <2>5
<1> QED
  BY <1>4, <1>6

LEMMA EdgesRejected == Typed /\ ProofOfShare => HonestProofRejectedAtEdges
<1> SUFFICES ASSUME Typed, ProofOfShare, proof # Nil
             PROVE  VerifySignatureShareProof(proof.proof, ScalarBaseMult(keyShare[proof.node]),
                                              proof.context)
                      <=> /\ proof.proof.Response # 0
                          /\ proof.proof.R # Infinity
                          /\ keyShare[proof.node] # 0
  BY DEF HonestProofRejectedAtEdges
<1>1. PICK n \in Parties, context \in Int, random \in Scalar :
        proof = [node |-> n, context |-> context,
                 proof |-> ProveSignatureShare(keyShare[n], context, random)]
  BY DEF ProofOfShare
<1>2. PICK d \in Scalar : d = keyShare[n]
  BY DEF Typed
<1>3. PICK made : made = ProveSignatureShare(d, context, random)
  OBVIOUS
<1>4. proof.proof = made /\ keyShare[proof.node] = d /\ proof.context = context
  BY <1>1, <1>2, <1>3
<1>5. /\ made.R \in CurvePoints
      /\ made.Challenge = Challenge(made.R, ScalarBaseMult(d), context)
      /\ made.Challenge # 0
      /\ made.Response \in Scalar
      /\ ScalarBaseMult(made.Response) = Add(made.R, ScalarMult(ScalarBaseMult(d), made.Challenge))
  BY <1>3, ProofFacts
<1>6. ScalarBaseMult(d) \in CurvePoints
  BY BaseMultiple, OrderPrime DEF Scalar
<1>7. IsOnCurve(made.R) <=> made.R # Infinity
  BY <1>5, OnCurve
<1>8. IsOnCurve(ScalarBaseMult(d)) <=> d # 0
  BY <1>6, OnCurve, InfinityOfScalar
<1>9. VerifySignatureShareProof(made, ScalarBaseMult(d), context)
        <=> made.Response # 0 /\ made.R # Infinity /\ d # 0
  BY <1>5, <1>7, <1>8 DEF VerifySignatureShareProof, ResponseFits
<1> QED
  BY <1>4, <1>9
-----------------------------------------------------------------------------
(* Sums of shares interpolate to the sum of the secrets, whichever          *)
(* Threshold or more of the nodes they are taken from and in which order.   *)
PointsOf(sums, order, size) ==
  [x \in 1 .. size |-> [X |-> order[x] + 1, Y |-> sums[order[x]]]]

Recovers(sums, total, m) ==
  \A size \in Threshold .. NumParties :
    \A order \in Injection(1 .. size, Parties) :
      Reconstruct(PointsOf(sums, order, size), m) = total

LEMMA PartyAbscissas ==
  ASSUME NEW m \in Nat, IsPrime(m), NumParties < m,
         NEW size \in Threshold .. NumParties, NEW order \in Injection(1 .. size, Parties),
         NEW X, X = [x \in 1 .. size |-> order[x] + 1]
  PROVE  /\ Abscissas(X, 1 .. size, m)
         /\ Cardinality(1 .. size) = size
         /\ \A x \in 1 .. size : order[x] \in Parties /\ X[x] = order[x] + 1
<1>1. order \in [1 .. size -> Parties] /\ \A x, z \in 1 .. size : order[x] = order[z] => x = z
  BY DEF Injection, IsInjective
<1>2. \A x \in 1 .. size : order[x] \in Parties /\ X[x] = order[x] + 1
  BY <1>1
<1>3. \A x \in 1 .. size : order[x] \in Nat /\ X[x] \in 1 .. NumParties
  BY <1>2, PartiesFacts
<1>4. NumParties \in Nat /\ size \in Nat
  BY PartiesFacts
<1>5. IsFiniteSet(1 .. size) /\ Cardinality(1 .. size) = size
  BY <1>4, FS_Interval
<1>6. \A x \in 1 .. size : X[x] \in 0 .. m - 1
  BY <1>3, <1>4
<1>7. \A x, z \in 1 .. size : X[x] = X[z] => x = z
  BY <1>1, <1>2, <1>3
<1> DEFINE S == 1 .. size
<1> HIDE DEF S
<1>8. Abscissas(X, S, m)
  BY <1>5, <1>6, <1>7, SmallAbscissas DEF S
<1> QED
  BY <1>2, <1>5, <1>8 DEF S

LEMMA RecoversNothing ==
  ASSUME NEW m \in Nat, IsPrime(m), NumParties < m
  PROVE  Recovers(NoSum, 0, m)
<1> SUFFICES ASSUME NEW size \in Threshold .. NumParties,
                    NEW order \in Injection(1 .. size, Parties)
             PROVE  Reconstruct(PointsOf(NoSum, order, size), m) = 0
  BY DEF Recovers
<1> DEFINE X == [x \in 1 .. size |-> order[x] + 1]
           points == PointsOf(NoSum, order, size)
           c == <<0>>
<1>1. /\ Abscissas(X, 1 .. size, m) /\ Cardinality(1 .. size) = size
      /\ \A x \in 1 .. size : order[x] \in Parties /\ X[x] = order[x] + 1
  BY PartyAbscissas
<1>2. DOMAIN points = 1 .. size
      /\ \A x \in 1 .. size : points[x].X = X[x] /\ points[x].Y = 0
  BY <1>1 DEF PointsOf, NoSum
<1>3. c \in Seq(Int) /\ c # <<>> /\ Len(c) = 1 /\ c[1] = 0
  OBVIOUS
<1>4. m > 0 /\ size \in Nat /\ size >= 1
  BY PrimeModulus, PartiesFacts
<1> HIDE DEF c, X, points
<1>5. ASSUME NEW x \in Int PROVE EvaluatePolynomial(c, x, m) = 0
  <2>1. PICK v : HornerValues(v, c, x, m) /\ EvaluatePolynomial(c, x, m) = v[1]
    BY <1>3, <1>4, Horner
  <2> QED
    BY <1>3, <2>1 DEF HornerValues
<1>6. \A x \in 1 .. size : X[x] \in Int
  BY <1>1 DEF Abscissas
<1>7. Reconstruct(points, m) = c[1] % m
  <2>1. \A i \in DOMAIN points :
           points[i].X = X[i] /\ points[i].Y = EvaluatePolynomial(c, X[i], m)
    BY <1>2, <1>5, <1>6
  <2>2. Len(c) <= Cardinality(DOMAIN points)
    BY <1>1, <1>2, <1>3, <1>4
  <2>3. Abscissas(X, DOMAIN points, m)
    BY <1>1, <1>2
  <2>4. c \in Seq(Int) /\ c # <<>>
    BY <1>3
  <2> QED
    BY <2>1, <2>2, <2>3, <2>4, ReconstructPolynomial
<1>8. 0 % m = 0
  BY <1>4
<1> QED
  BY <1>3, <1>7, <1>8 DEF points

LEMMA RecoversReceived ==
  ASSUME NEW m \in Nat, IsPrime(m), NumParties < m,
         NEW sums \in [Parties -> 0 .. m - 1], NEW total \in Int, Recovers(sums, total, m),
         NEW value \in Int, NEW c \in Coefficients(value, Threshold, m)
  PROVE  Recovers(Received(sums, c, m), (total + value) % m, m)
<1> SUFFICES ASSUME NEW size \in Threshold .. NumParties,
                    NEW order \in Injection(1 .. size, Parties)
             PROVE  Reconstruct(PointsOf(Received(sums, c, m), order, size), m)
                      = (total + value) % m
  BY DEF Recovers
<1> DEFINE S == 1 .. size
           X == [x \in S |-> order[x] + 1]
           p == PointsOf(sums, order, size)
           q == [x \in S |-> [X |-> X[x], Y |-> EvaluatePolynomial(c, X[x], m)]]
           t == PointsOf(Received(sums, c, m), order, size)
<1>0. m > 0
  BY PrimeModulus
<1>1. /\ Abscissas(X, S, m) /\ Cardinality(S) = size
      /\ \A x \in S : order[x] \in Parties /\ X[x] = order[x] + 1
  BY PartyAbscissas
<1>2. /\ c \in Seq(Int) /\ c # <<>> /\ Len(c) = Threshold /\ c[1] = value % m
  BY <1>0, PartiesFacts, CoefficientsType
<1>3. /\ Received(sums, c, m) \in [Parties -> 0 .. m - 1]
      /\ \A n \in Parties :
              /\ EvaluatePolynomial(c, n + 1, m) \in Int
              /\ Congruent(Received(sums, c, m)[n],
                           sums[n] + EvaluatePolynomial(c, n + 1, m), m)
  BY <1>0, ReceivedType
<1>4. DOMAIN p = S /\ DOMAIN q = S /\ DOMAIN t = S
  BY DEF PointsOf
<1>5. ASSUME NEW x \in S
      PROVE  /\ p[x].X = X[x] /\ q[x].X = X[x] /\ t[x].X = X[x]
             /\ p[x].Y \in Int /\ q[x].Y \in Int /\ t[x].Y \in Int
             /\ Congruent(t[x].Y, p[x].Y + q[x].Y, m)
             /\ q[x].Y = EvaluatePolynomial(c, X[x], m)
  <2>1. order[x] \in Parties /\ X[x] = order[x] + 1
    BY <1>1
  <2>2. p[x].Y = sums[order[x]] /\ p[x].X = order[x] + 1
        /\ t[x].Y = Received(sums, c, m)[order[x]] /\ t[x].X = order[x] + 1
    BY DEF PointsOf
  <2>3. q[x].Y = EvaluatePolynomial(c, X[x], m) /\ q[x].X = X[x]
    OBVIOUS
  <2> HIDE DEF X, p, q, t
  <2>4. q[x].Y = EvaluatePolynomial(c, order[x] + 1, m)
    BY <2>1, <2>3
  <2> QED
    BY <1>3, <2>1, <2>2, <2>3, <2>4
<1> HIDE DEF S, X, p, q, t
<1>6. Reconstruct(t, m) = (Reconstruct(p, m) + Reconstruct(q, m)) % m
  <2>1. \A x \in S : /\ p[x].X = X[x] /\ q[x].X = X[x] /\ t[x].X = X[x]
                     /\ p[x].Y \in Int /\ q[x].Y \in Int /\ t[x].Y \in Int
                     /\ Congruent(t[x].Y, p[x].Y + q[x].Y, m)
    BY <1>5
  <2> QED
    BY <1>1, <1>4, <2>1, ReconstructAdded
<1>7. Reconstruct(p, m) = total
  BY DEF Recovers, p
<1>8. Reconstruct(q, m) = c[1] % m
  <2>1. \A x \in DOMAIN q : q[x].X = X[x] /\ q[x].Y = EvaluatePolynomial(c, X[x], m)
    BY <1>4, <1>5
  <2>2. Len(c) <= Cardinality(DOMAIN q)
    BY <1>1, <1>2, <1>4, PartiesFacts
  <2> QED
    BY <1>1, <1>2, <1>4, <2>1, <2>2, ReconstructPolynomial
<1>9. (total + (c[1] % m)) % m = (total + value) % m
  <2> PICK r \in 0 .. m - 1 : r = value % m
    BY <1>0, Division
  <2>1. r % m = r
    BY <1>0, SmallRemainder
  <2>2. (total + (value % m)) % m = (total + value) % m
    BY <1>0, SumRemainder, Zenon
  <2> QED
    BY <1>2, <2>1, <2>2
<1> QED
  BY <1>6, <1>7, <1>8, <1>9 DEF t

KeyRecovered == pc \in {"deal", "nonce"} => Recovers(keyShare, secretSum, Order)

SumRecovered ==
  /\ pc \notin {"sum", "summed", "shared"} => sumShare = NoSum /\ expected = 0
  /\ pc = "sum" => Recovers(sumShare, expected % Prime, Prime)
  /\ pc = "summed" => sum = expected % Prime

LEMMA RecoveredInit == DemoInit => KeyRecovered /\ SumRecovered
<1>1. Recovers(NoSum, 0, Order)
  BY OrderPrime, PartiesFacts, RecoversNothing
<1> QED
  BY <1>1 DEF DemoInit, Init, KeyRecovered, SumRecovered

LEMMA KeyRecoveredStep == Typed /\ KeyRecovered /\ [Next]_vars => KeyRecovered'
<1> SUFFICES ASSUME Typed, KeyRecovered, [Next]_vars PROVE KeyRecovered'
  OBVIOUS
<1>1. ASSUME NEW n \in todo, GenerateSecretShare(n) PROVE KeyRecovered'
  <2>0. PICK s \in Scalar : \E c \in Coefficients(s, Threshold, Order) :
          /\ keyShare' = Received(keyShare, c, Order)
          /\ secretSum' = (secretSum + s) % Order
    BY <1>1 DEF GenerateSecretShare
  <2>1. PICK c \in Coefficients(s, Threshold, Order) :
          /\ keyShare' = Received(keyShare, c, Order)
          /\ secretSum' = (secretSum + s) % Order
    BY <2>0
  <2>2. pc = "deal" /\ Recovers(keyShare, secretSum, Order)
    BY <1>1 DEF GenerateSecretShare, KeyRecovered
  <2>3. /\ keyShare \in [Parties -> 0 .. Order - 1] /\ secretSum \in Int /\ s \in Int
        /\ Order \in Nat /\ IsPrime(Order) /\ NumParties < Order
    BY OrderPrime, PartiesFacts DEF Typed, Scalar
  <2>4. Recovers(Received(keyShare, c, Order), (secretSum + s) % Order, Order)
    BY <2>2, <2>3, RecoversReceived
  <2> QED
    BY <2>1, <2>4 DEF KeyRecovered
<1>2. CASE UNCHANGED vars
  BY <1>2 DEF KeyRecovered, vars, ecdsaVars, Recovers, PointsOf
<1>3. ASSUME UNCHANGED <<keyShare, secretSum>>, pc \in {"deal", "nonce"} PROVE KeyRecovered'
  BY <1>3 DEF KeyRecovered
<1>4. ASSUME pc' \notin {"deal", "nonce"} PROVE KeyRecovered'
  BY <1>4 DEF KeyRecovered
<1>5. ASSUME Next, ~ \E n \in todo : GenerateSecretShare(n)
      PROVE  \/ UNCHANGED <<keyShare, secretSum>> /\ pc \in {"deal", "nonce"}
             \/ pc' \notin {"deal", "nonce"}
  BY <1>5 DEF Next, ECDSANext, ProveShare, GenerateNonceShare, ReceiveSignatureShare,
     CombinePublicKeyShares, Sign, SignFails, Verify, VerifyPanics, CombineRPoints,
     CombineSignatureShares, StartSum, ShareSecret, ReconstructSum, ShareOne
<1> QED
  BY <1>1, <1>2, <1>3, <1>4, <1>5

LEMMA SumRecoveredStep == Typed /\ SumRecovered /\ [Next]_vars => SumRecovered'
<1> SUFFICES ASSUME Typed, SumRecovered, [Next]_vars PROVE SumRecovered'
  OBVIOUS
<1>1. ASSUME NEW n \in todo, ShareSecret(n) PROVE SumRecovered'
  <2>0. PICK value \in Secrets : \E c \in Coefficients(value, Threshold, Prime) :
          /\ sumShare' = Received(sumShare, c, Prime)
          /\ expected' = expected + ReducedInPlace(value)
    BY <1>1 DEF ShareSecret
  <2>1. PICK c \in Coefficients(value, Threshold, Prime) :
          /\ sumShare' = Received(sumShare, c, Prime)
          /\ expected' = expected + ReducedInPlace(value)
    BY <2>0
  <2>2. pc = "sum" /\ pc' = "sum" /\ Recovers(sumShare, expected % Prime, Prime)
    BY <1>1 DEF ShareSecret, SumRecovered
  <2>3. /\ sumShare \in [Parties -> 0 .. Prime - 1] /\ value \in Int /\ expected \in Int
        /\ Prime \in Nat /\ Prime > 0 /\ IsPrime(Prime) /\ NumParties < Prime
    BY SharingAssumption, PartiesFacts DEF Typed
  <2>4. PICK e \in Int, r \in Int : e = expected % Prime /\ r = value % Prime
    BY <2>3, Division
  <2>5. Recovers(Received(sumShare, c, Prime), (e + value) % Prime, Prime)
    BY <2>2, <2>3, <2>4, RecoversReceived
  <2>6. (e + value) % Prime = (expected + r) % Prime
    <3>1. (value + (expected % Prime)) % Prime = (value + expected) % Prime
      BY <2>3, SumRemainder, Zenon
    <3>2. (expected + (value % Prime)) % Prime = (expected + value) % Prime
      BY <2>3, SumRemainder, Zenon
    <3>3. value + e = e + value /\ value + expected = expected + value
      BY <2>3, <2>4
    <3> QED
      BY <2>4, <3>1, <3>2, <3>3
  <2> QED
    BY <2>1, <2>2, <2>4, <2>5, <2>6 DEF SumRecovered, ReducedInPlace
<1>2. CASE StartSum
  <2>1. Recovers(NoSum, 0, Prime)
    BY PartiesFacts, RecoversNothing
  <2>2. 0 % Prime = 0
    BY PartiesFacts
  <2>3. pc = "verified" /\ pc' = "sum" /\ sumShare' = sumShare /\ expected' = expected
    BY <1>2 DEF StartSum, sharingVars
  <2> QED
    BY <2>1, <2>2, <2>3 DEF SumRecovered
<1>3. CASE ReconstructSum
  <2>1. PICK order \in Injection(1 .. Threshold, Parties) :
          sum' = Reconstruct(PointsOf(sumShare, order, Threshold), Prime)
    BY <1>3 DEF ReconstructSum, PointsOf
  <2>2. Threshold \in Threshold .. NumParties
    BY PartiesFacts
  <2>3. pc = "sum" /\ pc' = "summed" /\ expected' = expected
    BY <1>3 DEF ReconstructSum
  <2>4. sum' = expected % Prime
    BY <2>1, <2>2, <2>3 DEF SumRecovered, Recovers
  <2> QED
    BY <2>3, <2>4 DEF SumRecovered
<1>4. CASE ShareOne
  BY <1>4 DEF SumRecovered, ShareOne
<1>5. CASE ECDSANext /\ UNCHANGED sharingVars
  <2>1. pc \notin {"sum", "summed", "shared"} /\ pc' \notin {"sum", "summed", "shared"}
    BY <1>5 DEF ECDSANext, GenerateSecretShare, GenerateNonceShare, ReceiveSignatureShare,
       CombinePublicKeyShares, ProveShare, Sign, SignFails, Verify, VerifyPanics, CombineRPoints,
       CombineSignatureShares
  <2> QED
    BY <1>5, <2>1 DEF SumRecovered, sharingVars
<1>6. CASE UNCHANGED vars
  BY <1>6 DEF SumRecovered, vars, ecdsaVars, sharingVars
<1> QED
  BY <1>1, <1>2, <1>3, <1>4, <1>5, <1>6 DEF Next

LEMMA KeyOfSecrets == KeyRecovered => KeySharesRecoverSecrets
BY DEF KeyRecovered, KeySharesRecoverSecrets, Recovers, PointsOf

LEMMA SumOfSecrets == Typed /\ SumRecovered => SumMatchesBelowPrime
<1> SUFFICES ASSUME Typed, pc = "summed", sum = expected % Prime
             PROVE  sum = expected <=> expected < Prime
  BY DEF SumRecovered, SumMatchesBelowPrime
<1>1. Prime \in Nat /\ Prime > 0 /\ expected \in Nat
  BY PartiesFacts DEF Typed
<1>2. expected % Prime \in 0 .. Prime - 1
  BY <1>1, Division
<1>3. ASSUME expected < Prime PROVE expected % Prime = expected
  BY <1>1, <1>3, SmallRemainder
<1> QED
  BY <1>1, <1>2, <1>3
-----------------------------------------------------------------------------
(* The shares of demoSecretSharing.                                         *)
SharedOne ==
  pc = "shared" =>
    \E value \in Secrets : \E c \in Coefficients(value, SharingThreshold, Prime) :
      secret = value % Prime /\ shares = Shares(c, SharingParties, Prime)

LEMMA SharedOneStep == SharedOne /\ [Next]_vars => SharedOne'
<1> SUFFICES ASSUME SharedOne, [Next]_vars PROVE SharedOne'
  OBVIOUS
<1>1. CASE ShareOne
  BY <1>1 DEF ShareOne, SharedOne, ReducedInPlace
<1>2. CASE UNCHANGED vars
  BY <1>2 DEF SharedOne, vars, ecdsaVars, sharingVars
<1>3. ASSUME Next, ~ ShareOne PROVE pc' # "shared"
  BY <1>3 DEF Next, ECDSANext, GenerateSecretShare, GenerateNonceShare, ReceiveSignatureShare,
     CombinePublicKeyShares, ProveShare, Sign, SignFails, Verify, VerifyPanics, CombineRPoints,
     CombineSignatureShares, StartSum, ShareSecret, ReconstructSum
<1> QED
  BY <1>1, <1>2, <1>3 DEF SharedOne

LEMMA SharingFacts ==
  /\ SharingParties \in Nat /\ SharingParties < Prime
  /\ SharingThreshold \in Nat /\ SharingThreshold >= 2 /\ SharingThreshold <= SharingParties
  /\ \A value \in Secrets : value \in Int
<1>1. SharingThreshold \in 2 .. SharingParties /\ SharingParties < Prime
      /\ \A value \in Secrets : value \in Int
  BY SharingAssumption
<1> QED
  BY <1>1, SharingAssumption

LEMMA AnyReconstruct == SharedOne => AnySharesReconstruct
<1> SUFFICES ASSUME SharedOne, pc = "shared",
                    NEW size \in SharingThreshold .. SharingParties,
                    NEW order \in Injection(1 .. size, 1 .. SharingParties)
             PROVE  Reconstruct([x \in 1 .. size |-> shares[order[x]]], Prime) = secret
  BY DEF AnySharesReconstruct
<1>0. Prime \in Nat /\ Prime > 0 /\ IsPrime(Prime)
  BY PartiesFacts
<1>1. PICK value \in Secrets : \E c \in Coefficients(value, SharingThreshold, Prime) :
        secret = value % Prime /\ shares = Shares(c, SharingParties, Prime)
  BY DEF SharedOne
<1>2. PICK c \in Coefficients(value, SharingThreshold, Prime) :
        secret = value % Prime /\ shares = Shares(c, SharingParties, Prime)
  BY <1>1
<1>3. c \in Seq(Int) /\ c # <<>> /\ Len(c) = SharingThreshold /\ c[1] = value % Prime
  BY <1>0, SharingFacts, CoefficientsType
<1> DEFINE S == 1 .. size
           X == [x \in S |-> order[x]]
           points == [x \in S |-> shares[order[x]]]
<1>4. size \in Nat /\ IsFiniteSet(S) /\ Cardinality(S) = size
  <2>1. size \in Nat
    BY SharingFacts
  <2> QED
    BY <2>1, FS_Interval
<1>5. \A x \in S : order[x] \in 1 .. SharingParties /\ X[x] = order[x]
  BY DEF Injection
<1>6. \A x, z \in S : X[x] = X[z] => x = z
  <2>1. \A x, z \in S : order[x] = order[z] => x = z
    BY DEF Injection, IsInjective
  <2> QED
    BY <1>5, <2>1
<1>7. \A x \in S : X[x] \in 0 .. Prime - 1
  BY <1>0, <1>5, SharingFacts
<1>8. DOMAIN points = S
      /\ \A x \in S : points[x].X = X[x] /\ points[x].Y = EvaluatePolynomial(c, X[x], Prime)
  BY <1>2, <1>5 DEF Shares
<1>9. Len(c) <= Cardinality(S)
  BY <1>3, <1>4, SharingFacts
<1> HIDE DEF S, X, points
<1>10. Abscissas(X, DOMAIN points, Prime)
  BY <1>0, <1>4, <1>6, <1>7, <1>8, SmallAbscissas
<1>11. Reconstruct(points, Prime) = c[1] % Prime
  BY <1>3, <1>8, <1>9, <1>10, ReconstructPolynomial
<1>12. c[1] % Prime = c[1]
  <2> PICK r \in 0 .. Prime - 1 : r = value % Prime
    BY <1>0, SharingFacts, Division
  <2> QED
    BY <1>0, <1>3, SmallRemainder
<1> QED
  BY <1>2, <1>3, <1>11, <1>12 DEF points, S

(* The known shares and a guess are k points.                               *)
LEMMA FewerTellNothing == SharedOne => FewerSharesTellNothing
<1> SUFFICES ASSUME SharedOne, pc = "shared", NEW known \in SUBSET (1 .. SharingParties),
                    Cardinality(known) = SharingThreshold - 1, NEW guess \in 0 .. Prime - 1
             PROVE  \E one \in Coefficients(guess, SharingThreshold, Prime) :
                      {c \in Coefficients(guess, SharingThreshold, Prime) :
                         \A i \in known : Shares(c, SharingParties, Prime)[i] = shares[i]} = {one}
  BY DEF FewerSharesTellNothing
<1> PICK m \in Nat, k \in Nat, n \in Nat :
      m = Prime /\ k = SharingThreshold /\ n = SharingParties /\ k > 0 /\ m > 0 /\ IsPrime(m) /\ n < m
  BY SharingFacts, PartiesFacts
<1>1. PICK value \in Int : \E c \in Coefficients(value, k, m) : shares = Shares(c, n, m)
  BY SharingFacts DEF SharedOne
<1>2. PICK given \in Coefficients(value, k, m) : shares = Shares(given, n, m)
  BY <1>1
<1>3. given \in Seq(Int) /\ given # <<>> /\ given[1] \in 0 .. m - 1
  <2>1. 1 \in 1 .. k
    OBVIOUS
  <2> QED
    BY <2>1, CoefficientsType
\* The known points, and the guess at 0.
<1> DEFINE S == known \cup {0}
           X == [i \in S |-> i]
           y == [i \in S |-> IF i = 0 THEN guess ELSE shares[i].Y]
<1>4. /\ known \in SUBSET (1 .. n) /\ 0 \notin known
      /\ IsFiniteSet(known) /\ IsFiniteSet(S) /\ Cardinality(S) = k
  <2>1. IsFiniteSet(1 .. n)
    BY FS_Interval
  <2>2. IsFiniteSet(known) /\ 0 \notin known
    <3>1. known \subseteq 1 .. n /\ 0 \notin 1 .. n
      OBVIOUS
    <3>2. IsFiniteSet(known)
      BY <2>1, <3>1, FS_Subset, Zenon
    <3> QED
      BY <3>1, <3>2
  <2>3. IsFiniteSet(S) /\ Cardinality(S) = Cardinality(known) + 1
    BY <2>2, FS_AddElement
  <2>4. Cardinality(known) = k - 1 /\ (k - 1) + 1 = k
    OBVIOUS
  <2> QED
    BY <2>2, <2>3, <2>4
<1>5. \A i \in known : /\ i \in 1 .. n /\ i \in Int /\ i # 0 /\ i \in S /\ i \in 0 .. m - 1
                       /\ X[i] = i /\ i % m # 0
  <2> SUFFICES ASSUME NEW i \in known PROVE i \in 1 .. n /\ i \in 0 .. m - 1 /\ i % m # 0
    OBVIOUS
  <2>1. i \in 1 .. n /\ i \in 0 .. m - 1
    OBVIOUS
  <2>2. i % m = i
    BY <2>1, SmallRemainder
  <2> QED
    BY <2>1, <2>2
<1>6. Abscissas(X, S, m) /\ Abscissas(X, known, m)
  <2>1. \A i \in S : X[i] = i /\ X[i] \in 0 .. m - 1
    OBVIOUS
  <2>2. \A i, j \in S : X[i] = X[j] => i = j
    BY <2>1
  <2> HIDE DEF X
  <2>3. Abscissas(X, S, m)
    BY <1>4, <2>1, <2>2, SmallAbscissas
  <2>4. known \subseteq S
    OBVIOUS
  <2> QED
    BY <1>4, <2>3, <2>4 DEF Abscissas
<1>7. \A i \in known : /\ shares[i] = [X |-> i, Y |-> EvaluatePolynomial(given, i, m)]
                       /\ shares[i].Y \in 0 .. m - 1 /\ y[i] = shares[i].Y
  <2> SUFFICES ASSUME NEW i \in known
               PROVE  /\ shares[i] = [X |-> i, Y |-> EvaluatePolynomial(given, i, m)]
                      /\ shares[i].Y \in 0 .. m - 1
    BY <1>5
  <2>1. shares[i] = [X |-> i, Y |-> EvaluatePolynomial(given, i, m)]
    BY <1>2, <1>5 DEF Shares
  <2>2. i \in Int
    BY <1>5
  <2>3. EvaluatePolynomial(given, i, m) \in 0 .. m - 1
    BY <1>3, <2>2, EvaluatePolynomialType
  <2> QED
    BY <2>1, <2>3
<1>8. y \in [S -> Int] /\ y[0] = guess /\ X[0] = 0 /\ 0 \in S /\ S # {}
  <2>1. \A i \in S : y[i] \in Int
    <3> SUFFICES ASSUME NEW i \in S PROVE y[i] \in Int
      OBVIOUS
    <3>1. CASE i = 0
      BY <3>1
    <3>2. CASE i # 0
      <4>1. i \in known
        BY <3>2
      <4> HIDE DEF y
      <4>2. shares[i].Y \in 0 .. m - 1 /\ y[i] = shares[i].Y
        BY <1>7, <4>1
      <4> QED
        BY <4>2
    <3> QED
      BY <3>1, <3>2
  <2> QED
    BY <2>1
<1> HIDE DEF S, X, y
<1>9. PICK one \in [1 .. k -> 0 .. m - 1] :
        \A i \in S : Congruent(EvaluatePolynomial(one, X[i], m), y[i], m)
  BY <1>4, <1>6, <1>8, InterpolatingPolynomial
<1>10. one \in Seq(Int) /\ one # <<>> /\ one[1] \in 0 .. m - 1
  OBVIOUS
<1>11. one[1] = guess
  <2> PICK a \in 0 .. m - 1, b \in 0 .. m - 1 : a = one[1] /\ b = guess
    BY <1>10
  <2>1. Congruent(EvaluatePolynomial(one, 0, m), b, m)
    BY <1>8, <1>9
  <2>2. Congruent(EvaluatePolynomial(one, 0, m), a, m)
    BY <1>10, EvaluateAtZero
  <2>3. a % m = a /\ b % m = b
    BY SmallRemainder
  <2> QED
    BY <2>1, <2>2, <2>3 DEF Congruent
<1>12. one \in Coefficients(guess, k, m)
  BY <1>11, CoefficientsOf
<1>13. ASSUME NEW i \in known PROVE EvaluatePolynomial(one, i, m) = shares[i].Y
  <2>1. i \in Int /\ i \in S /\ X[i] = i
    BY <1>5
  <2>2. EvaluatePolynomial(one, i, m) \in 0 .. m - 1
    BY <1>10, <2>1, EvaluatePolynomialType
  <2> PICK a \in 0 .. m - 1, b \in 0 .. m - 1 : a = EvaluatePolynomial(one, i, m) /\ b = shares[i].Y
    BY <1>7, <2>2
  <2>3. Congruent(a, b, m)
    BY <1>7, <1>9, <2>1
  <2>4. a % m = a /\ b % m = b
    BY SmallRemainder
  <2> QED
    BY <2>3, <2>4 DEF Congruent
<1>14. ASSUME NEW i \in known PROVE Shares(one, n, m)[i] = shares[i]
  <2>1. Shares(one, n, m)[i] = [X |-> i, Y |-> EvaluatePolynomial(one, i, m)]
    BY <1>5 DEF Shares
  <2>2. shares[i] = [X |-> i, Y |-> EvaluatePolynomial(given, i, m)]
    BY <1>7
  <2>3. shares[i].Y = EvaluatePolynomial(given, i, m)
    BY <2>2
  <2> QED
    BY <1>13, <2>1, <2>2, <2>3
<1>15. ASSUME NEW c \in Coefficients(guess, k, m),
              \A i \in known : Shares(c, n, m)[i] = shares[i]
       PROVE  c = one
  <2>1. c \in [1 .. k -> 0 .. m - 1] /\ c[1] = guess
    <3>1. /\ c \in Seq(Int) /\ Len(c) = k /\ (\A i \in 1 .. k : c[i] \in 0 .. m - 1)
          /\ c[1] = guess % m
      BY CoefficientsType
    <3>2. guess % m = guess
      BY SmallRemainder
    <3> QED
      BY <3>1, <3>2
  <2>2. ASSUME NEW i \in known
        PROVE  EvaluatePolynomial(c, X[i], m) = EvaluatePolynomial(one, X[i], m)
    <3>1. Shares(c, n, m)[i] = [X |-> i, Y |-> EvaluatePolynomial(c, i, m)]
      BY <1>5 DEF Shares
    <3>2. EvaluatePolynomial(c, i, m) = shares[i].Y
      <4> PICK share : share = shares[i]
        OBVIOUS
      <4>1. share = [X |-> i, Y |-> EvaluatePolynomial(c, i, m)]
        BY <1>15, <3>1
      <4>2. share.Y = EvaluatePolynomial(c, i, m)
        BY <4>1
      <4> QED
        BY <4>2
    <3> QED
      BY <1>5, <1>13, <3>2
  <2>3. SameValues(c, one, X, known, m) /\ NonZero(X, known, m)
    BY <1>5, <2>2 DEF SameValues, NonZero
  <2>4. Cardinality(known) = k - 1 /\ c[1] = one[1]
    BY <1>11, <2>1
  <2> QED
    BY <1>6, <2>1, <2>3, <2>4, OnePolynomial
<1>16. {c \in Coefficients(guess, k, m) :
          \A i \in known : Shares(c, n, m)[i] = shares[i]} = {one}
  BY <1>12, <1>14, <1>15
<1> QED
  BY <1>12, <1>16
-----------------------------------------------------------------------------
(* Signatures.  s fits k, r, the hash and the private key if k times s is   *)
(* the hash and r times the key.                                            *)
Fits(r, s, k, h, key) ==
  r = Abscissa(ScalarBaseMult(k)) /\ Congruent(k * s, h + r * key, Order)

LEMMA FittingSignature ==
  ASSUME NEW key \in Int, NEW h \in Int, NEW k \in Int, NEW r \in Int, NEW s \in Int,
         Fits(r, s, k, h, key), s % Order # 0, h % Order # 0
  PROVE  VerifyWithCurve(ScalarBaseMult(key), h, r, s)
<1>0. Order \in Nat /\ Order > 0 /\ Order > 1 /\ IsPrime(Order)
  BY OrderPrime
<1>1. PICK w \in Int : w = ModInverse(s, Order) /\ (s * w) % Order = 1
  <2>1. ModInverse(s, Order) \in 1 .. Order - 1 /\ (s * ModInverse(s, Order)) % Order = 1
    BY <1>0, InverseExists
  <2> QED
    BY <1>0, <2>1
<1>2. PICK e \in Int : e = h % Order /\ Congruent(e, h, Order)
  BY <1>0, CongruentRemainder
<1> PICK a \in Int, b \in Int, c \in Int, d \in Int, p \in Int, ks \in Int, sw \in Int :
      /\ a = e * w /\ b = r * w /\ c = key * b /\ d = a + c /\ p = r * key
      /\ ks = k * s /\ sw = s * w
  OBVIOUS
<1>3. ScalarMult(ScalarBaseMult(key), b) = ScalarBaseMult(c)
  BY MultipleOfMultiple
<1>4. Add(ScalarBaseMult(a), ScalarBaseMult(c)) = ScalarBaseMult(d)
  BY SumOfMultiples
<1>5. Congruent(d, k, Order)
  <2>1. Congruent(e + p, h + p, Order)
    <3>1. Congruent(p, p, Order)
      BY DEF Congruent
    <3> QED
      BY <1>0, <1>2, <3>1, CongruentSum
  <2>2. Congruent(h + p, ks, Order)
    BY DEF Fits, Congruent
  <2>3. Congruent(e + p, ks, Order)
    BY <2>1, <2>2, CongruentChain
  <2> PICK u \in Int, one \in Int : u = e + p /\ one = 1
    OBVIOUS
  <2>4. Congruent(w * u, w * ks, Order)
    BY <1>0, <2>3, CongruentScaled
  <2>5. Congruent(k * sw, k * one, Order)
    <3>1. Congruent(sw, one, Order)
      BY <1>0, <1>1, SmallRemainder DEF Congruent
    <3> QED
      BY <1>0, <3>1, CongruentScaled
  <2>6. d = w * u
    <3>1. w * u = w * e + w * p
      OBVIOUS
    <3>2. w * p = key * b /\ w * e = e * w
      OBVIOUS
    <3> QED
      BY <3>1, <3>2
  <2>7. w * ks = k * sw /\ k * one = k
    OBVIOUS
  <2> QED
    BY <2>4, <2>5, <2>6, <2>7, CongruentChain
<1>6. ScalarBaseMult(d) = ScalarBaseMult(k)
  BY <1>5, BaseMultiple DEF Congruent
<1>7. VerifyWithCurve(ScalarBaseMult(key), h, r, s)
        <=> Abscissa(Add(ScalarBaseMult(a), ScalarMult(ScalarBaseMult(key), b))) = r
  BY <1>1, <1>2 DEF VerifyWithCurve
<1> QED
  BY <1>3, <1>4, <1>6, <1>7 DEF Fits
-----------------------------------------------------------------------------
(* Sums over the parties.                                                   *)
LEMMA SumOfParties ==
  ASSUME NEW f \in [Parties -> Scalar], NEW c \in Int, NEW h \in Int,
         NEW g, DOMAIN g = Parties,
         \A n \in Parties : g[n] \in Int /\ Congruent(g[n], h + c * f[n], Order)
  PROVE  /\ SumFunction(f) \in Int
         /\ SumFunction(g) \in Int
         /\ Congruent(SumFunction(g), NumParties * h + c * SumFunction(f), Order)
<1>0. IsFiniteSet(Parties) /\ Cardinality(Parties) = NumParties /\ NumParties \in Int
      /\ Order \in Nat /\ Order > 0 /\ DOMAIN f = Parties
  BY PartiesFacts, OrderPrime
<1>1. \A n \in Parties : f[n] \in Int
  BY OrderPrime DEF Scalar
<1> DEFINE one == [n \in Parties |-> 1]
<1>2. \A n \in Parties : one[n] = 1 /\ one[n] \in Int
  OBVIOUS
<1> HIDE DEF one
<1>3. ASSUME NEW n \in Parties PROVE Congruent(g[n], c * f[n] + h * one[n], Order)
  <2>1. h + c * f[n] = c * f[n] + h * one[n]
    <3>1. c * f[n] \in Int
      BY <1>1
    <3> QED
      BY <1>2, <3>1
  <2> QED
    BY <2>1
<1>4. Congruent(SumFunctionOnSet(g, Parties),
                c * SumFunctionOnSet(f, Parties) + h * SumFunctionOnSet(one, Parties), Order)
  BY <1>0, <1>1, <1>2, <1>3, SumLinear
<1>5. SumFunctionOnSet(one, Parties) = NumParties
  BY <1>0, <1>2, SumOfOnes
<1>6. SumFunctionOnSet(f, Parties) \in Int /\ SumFunctionOnSet(g, Parties) \in Int
  BY <1>0, <1>1, SumStep
<1> PICK total \in Int : total = SumFunctionOnSet(f, Parties)
  BY <1>6
<1>7. c * total + h * NumParties = NumParties * h + c * total
  <2>1. h * NumParties = NumParties * h
    BY <1>0
  <2> PICK p \in Int, q \in Int : p = c * total /\ q = NumParties * h
    BY <1>0
  <2> QED
    BY <2>1
<1> QED
  BY <1>0, <1>4, <1>5, <1>6, <1>7 DEF SumFunction

LEMMA OneSignatureShare ==
  ASSUME NEW kInv \in Int, NEW r \in Int, NEW d \in Int, NEW c, c = kInv * r
  PROVE  /\ (kInv * ((r * d) % Order)) % Order \in Int
         /\ Congruent((kInv * ((r * d) % Order)) % Order, c * d, Order)
<1>0. Order \in Nat /\ Order > 0
  BY OrderPrime
<1> PICK p \in Int, q \in Int, u \in Int : p = r * d /\ q = kInv * p /\ u = c * d
  OBVIOUS
<1>1. (kInv * (p % Order)) % Order = (kInv * p) % Order
  BY <1>0, ProductRemainder, Zenon
<1>2. q = u
  OBVIOUS
<1>3. (kInv * (p % Order)) % Order = u % Order
  BY <1>1, <1>2
<1>4. u % Order \in Int /\ Congruent(u % Order, u, Order)
  BY <1>0, CongruentRemainder
<1> QED
  BY <1>3, <1>4

(* What SignPhase makes fits the nonce it reconstructed.                    *)
LEMMA SignatureFitting ==
  ASSUME Typed, Sign
  PROVE  /\ SumFunction(keyShare) \in Int
         /\ signature'.r \in Scalar /\ signature'.s \in Scalar
         /\ hash' \in Int
         /\ \E k \in Int : Fits(signature'.r, signature'.s, k, hash', SumFunction(keyShare))
<1>0. Order \in Nat /\ Order > 0 /\ Order > 1 /\ IsPrime(Order) /\ Scalar = 0 .. Order - 1
  BY OrderPrime DEF Scalar
<1>1. PICK order \in Injection(1 .. Threshold, Parties), messageHash \in Hashes :
        LET k == Reconstruct(NoncePoints(order), Order)
            kInv == ModInverse(k, Order)
            r == Abscissa(ScalarBaseMult(k))
            h == messageHash % Order
            signed == [n \in Parties |-> SignatureShare(n, kInv, r, h)]
        IN /\ k # 0
           /\ hash' = messageHash
           /\ signature' = [r |-> r, s |-> (SumOver(signed, Order) + kInv * h) % Order]
  BY DEF Sign
<1>2. messageHash \in Int
  BY PartiesAssumption
<1>3. PICK k \in Scalar : k = Reconstruct(NoncePoints(order), Order)
  BY NonceType DEF Typed
<1>4. k \in Int /\ k # 0 /\ k % Order = k
  BY <1>0, <1>1, <1>3, SmallRemainder
<1>5. PICK kInv \in Int : kInv = ModInverse(k, Order) /\ (k * kInv) % Order = 1
  <2>1. ModInverse(k, Order) \in 1 .. Order - 1 /\ (k * ModInverse(k, Order)) % Order = 1
    BY <1>0, <1>4, InverseExists
  <2> QED
    BY <1>0, <2>1
<1>6. PICK r \in Scalar : r = Abscissa(ScalarBaseMult(k))
  BY <1>4, BaseMultiple, AbscissaType
<1>7. PICK h \in Int : h = messageHash % Order /\ Congruent(h, messageHash, Order)
  BY <1>0, <1>2, CongruentRemainder
<1> DEFINE signed == [n \in Parties |-> SignatureShare(n, kInv, r, h)]
<1>8. hash' = messageHash
      /\ signature' = [r |-> r, s |-> (SumOver(signed, Order) + kInv * h) % Order]
  BY <1>1, <1>3, <1>5, <1>6, <1>7
<1>9. r \in Int /\ keyShare \in [Parties -> Scalar]
  BY <1>0 DEF Typed
<1> PICK c \in Int : c = kInv * r
  BY <1>9
<1>10. ASSUME NEW n \in Parties
       PROVE  signed[n] \in Int /\ Congruent(signed[n], 0 + c * keyShare[n], Order)
  <2> PICK d \in Int : d = keyShare[n]
    BY <1>0, <1>9
  <2>1. signed[n] \in Int /\ Congruent(signed[n], c * d, Order)
    BY <1>9, OneSignatureShare DEF SignatureShare
  <2>2. 0 + c * d = c * d
    OBVIOUS
  <2> QED
    BY <2>1, <2>2
<1>11. DOMAIN signed = Parties
  OBVIOUS
<1> HIDE DEF signed
<1> PICK zero \in Int : zero = 0
  OBVIOUS
<1>12. \A n \in Parties : signed[n] \in Int /\ Congruent(signed[n], zero + c * keyShare[n], Order)
  BY <1>10
<1>13. /\ SumFunction(keyShare) \in Int
       /\ SumFunction(signed) \in Int
       /\ Congruent(SumFunction(signed), NumParties * zero + c * SumFunction(keyShare), Order)
  BY <1>9, <1>11, <1>12, SumOfParties
<1> PICK key \in Int, total \in Int, cd \in Int :
      key = SumFunction(keyShare) /\ total = SumFunction(signed) /\ cd = c * key
  BY <1>13
<1>14. Congruent(total, cd, Order)
  <2>1. NumParties * zero + cd = cd
    BY PartiesFacts
  <2> QED
    BY <1>13, <2>1
<1>15. PICK t \in Int : t = SumOver(signed, Order) /\ Congruent(t, cd, Order)
  <2>1. total % Order \in Int /\ Congruent(total % Order, total, Order)
    BY <1>0, CongruentRemainder
  <2>2. Congruent(total % Order, cd, Order)
    BY <1>14, <2>1, CongruentChain
  <2> QED
    BY <2>1, <2>2 DEF SumOver
<1> PICK kh \in Int, w \in Int : kh = kInv * h /\ w = t + kh
  OBVIOUS
<1>16. PICK s \in Scalar : s = w % Order /\ Congruent(s, w, Order)
  BY <1>0, Division, CongruentRemainder
<1>17. signature'.r = r /\ signature'.s = s
  BY <1>8, <1>15, <1>16
<1>18. s \in Int
  BY <1>0
<1> PICK rd \in Int, e \in Int, ki \in Int, one \in Int :
      rd = r * key /\ e = h + rd /\ ki = k * kInv /\ one = 1
  BY <1>4, <1>9
<1>19. cd + kh = kInv * e
  <2>1. cd = kInv * rd
    BY <1>9
  <2>2. kInv * (h + rd) = kInv * h + kInv * rd
    OBVIOUS
  <2> QED
    BY <2>1, <2>2
<1>20. Congruent(s, kInv * e, Order)
  <2>1. Congruent(w, cd + kh, Order)
    <3>1. Congruent(kh, kh, Order)
      BY DEF Congruent
    <3> QED
      BY <1>0, <1>15, <3>1, CongruentSum
  <2> QED
    BY <1>16, <1>19, <2>1, CongruentChain
<1> PICK ie \in Int : ie = kInv * e
  BY ProductType, Zenon
<1>21. Congruent(k * s, e, Order)
  <2>1. Congruent(k * s, k * ie, Order)
    BY <1>0, <1>4, <1>18, <1>20, CongruentScaled
  <2>2. Congruent(ki, one, Order)
    <3>1. one \in 0 .. Order - 1
      BY <1>0
    <3>2. one % Order = one
      BY <1>0, <3>1, SmallRemainder, Zenon
    <3> QED
      BY <1>5, <3>2 DEF Congruent
  <2>3. Congruent(e * ki, e * one, Order)
    BY <1>0, <2>2, CongruentScaled
  <2>4. k * ie = e * ki /\ e * one = e
    <3>1. k * ie = e * ki
      BY <1>4, ProductOrder
    <3>2. e * one = e
      OBVIOUS
    <3> QED
      BY <3>1, <3>2
  <2> QED
    BY <2>1, <2>3, <2>4, CongruentChain
<1>22. Congruent(k * s, messageHash + rd, Order)
  <2>1. Congruent(rd, rd, Order)
    BY DEF Congruent
  <2>2. Congruent(e, messageHash + rd, Order)
    BY <1>0, <1>2, <1>7, <2>1, CongruentSum
  <2> QED
    BY <1>21, <2>2, CongruentChain
<1>23. Fits(r, s, k, messageHash, key)
  BY <1>6, <1>22 DEF Fits
<1> QED
  BY <1>2, <1>4, <1>8, <1>13, <1>17, <1>23
-----------------------------------------------------------------------------
(* The key pair, from CombinePublicKeyShares on.                            *)
KeyFits ==
  pc \notin {"deal", "sum", "summed", "shared"} =>
    publicKey = ScalarBaseMult(SumFunction(keyShare))

LEMMA KeyFitsStep == Typed /\ KeyFits /\ [Next]_vars => KeyFits'
<1> SUFFICES ASSUME Typed, KeyFits, [Next]_vars PROVE KeyFits'
  OBVIOUS
<1>1. CASE CombinePublicKeyShares
  <2>1. keyShare' = keyShare
    BY <1>1 DEF CombinePublicKeyShares
  <2> QED
    BY <1>1, <2>1, PublicKeyIs DEF KeyFits
<1>2. CASE UNCHANGED vars
  BY <1>2 DEF KeyFits, vars, ecdsaVars
<1>3. ASSUME Next, ~ CombinePublicKeyShares
      PROVE  \/ pc' \in {"deal", "sum", "summed", "shared"}
             \/ /\ pc \notin {"deal", "sum", "summed", "shared"}
                /\ publicKey' = publicKey /\ keyShare' = keyShare
  BY <1>3 DEF Next, ECDSANext, GenerateSecretShare, GenerateNonceShare, ReceiveSignatureShare,
     ProveShare, Sign, SignFails, Verify, VerifyPanics, CombineRPoints,
     CombineSignatureShares, StartSum, ShareSecret, ReconstructSum, ShareOne
<1>4. ASSUME Next, ~ CombinePublicKeyShares PROVE KeyFits'
  BY <1>3, <1>4 DEF KeyFits
<1> QED
  BY <1>1, <1>2, <1>4

(* The signature of SignPhase, and what VerifyWithCurve says of it.         *)
Signed ==
  /\ pc \in {"signed", "verified", "panicked"}
  /\ signature.r \in Scalar /\ signature.s \in Scalar
  /\ \E k \in Int : Fits(signature.r, signature.s, k, hash, SumFunction(keyShare))
  /\ SumFunction(keyShare) \in Int

SignatureFits ==
  /\ \/ Signed
     \/ pc \notin {"signed", "verified"} /\ signature = Nil
  /\ pc = "verified" /\ hash % Order # 0 => valid

LEMMA VerifyFits ==
  ASSUME Typed, KeyFits, SignatureFits, Verify
  PROVE  hash % Order # 0 => valid'
<1> SUFFICES ASSUME hash % Order # 0 PROVE valid'
  OBVIOUS
<1>1. pc = "signed" /\ signature.s # 0
      /\ valid' = VerifyWithCurve(publicKey, hash, signature.r, signature.s)
  BY DEF Verify
<1>2. Signed /\ publicKey = ScalarBaseMult(SumFunction(keyShare))
  BY <1>1 DEF SignatureFits, KeyFits
<1> PICK key \in Int, r \in Int, s \in Scalar, h \in Int :
      key = SumFunction(keyShare) /\ r = signature.r /\ s = signature.s /\ h = hash
  BY <1>2, OrderPrime DEF Signed, Typed, Scalar
<1>3. PICK k \in Int : Fits(r, s, k, h, key)
  BY <1>2 DEF Signed
<1>4. s \in Int /\ s % Order # 0
  BY <1>1, OrderPrime, SmallRemainder DEF Scalar
<1>5. VerifyWithCurve(ScalarBaseMult(key), h, r, s)
  BY <1>3, <1>4, FittingSignature
<1> QED
  BY <1>1, <1>2, <1>5

LEMMA SignatureFitsStep == Typed /\ KeyFits /\ SignatureFits /\ [Next]_vars => SignatureFits'
<1> SUFFICES ASSUME Typed, KeyFits, SignatureFits, [Next]_vars PROVE SignatureFits'
  OBVIOUS
<1>1. CASE Sign
  <2>1. pc' = "signed" /\ keyShare' = keyShare
    BY <1>1 DEF Sign
  <2> QED
    BY <1>1, <2>1, SignatureFitting DEF SignatureFits, Signed
<1>2. ASSUME UNCHANGED <<keyShare, hash, signature>>, pc = "signed",
             pc' \in {"signed", "verified", "panicked"} PROVE Signed'
  <2>1. Signed
    BY <1>2 DEF SignatureFits
  <2> QED
    BY <1>2, <2>1 DEF Signed
<1>3. CASE Verify
  <2>1. UNCHANGED <<keyShare, hash, signature>> /\ pc = "signed" /\ pc' = "verified"
    BY <1>3 DEF Verify
  <2> QED
    BY <1>2, <1>3, <2>1, VerifyFits DEF SignatureFits
<1>4. CASE VerifyPanics
  <2>1. UNCHANGED <<keyShare, hash, signature>> /\ pc = "signed" /\ pc' = "panicked"
    BY <1>4 DEF VerifyPanics
  <2> QED
    BY <1>2, <2>1 DEF SignatureFits
<1>5. CASE UNCHANGED vars
  BY <1>5 DEF SignatureFits, Signed, vars, ecdsaVars
<1>6. CASE StartSum
  BY <1>6 DEF SignatureFits, StartSum
<1>7. ASSUME Next, ~ Sign, ~ Verify, ~ VerifyPanics, ~ StartSum
      PROVE  /\ pc \notin {"signed", "verified", "panicked"}
             /\ pc' \notin {"signed", "verified", "panicked"}
             /\ signature' = signature
  BY <1>7 DEF Next, ECDSANext, GenerateSecretShare, GenerateNonceShare, ReceiveSignatureShare,
     CombinePublicKeyShares, ProveShare, SignFails, CombineRPoints,
     CombineSignatureShares, ShareSecret, ReconstructSum, ShareOne
<1>8. ASSUME Next, ~ Sign, ~ Verify, ~ VerifyPanics, ~ StartSum PROVE SignatureFits'
  BY <1>7, <1>8 DEF SignatureFits, Signed
<1> QED
  BY <1>1, <1>3, <1>4, <1>5, <1>6, <1>8

LEMMA VerifiedSucceeds == SignatureFits => VerificationSucceeds
BY DEF SignatureFits, VerificationSucceeds
-----------------------------------------------------------------------------
(* The methods of NodeSigning: what has come in so far.                     *)
CombineR == Abscissa(ScalarBaseMult(SumFunction(nonceShare)))
MethodShare(n) == (hash + CombineR * keyShare[n]) % Order

Combining ==
  /\ pc = "combine"
  /\ combined = [r |-> CombineR,
                 SignatureShares |-> [n \in Parties \ todo |-> MethodShare(n)],
                 s |-> Nil]

Combined ==
  /\ pc = "combined"
  /\ combined.r = CombineR
  /\ combined.s \in Scalar
  /\ Congruent(combined.s, NumParties * hash + CombineR * SumFunction(keyShare), Order)

CombinedShares == Combining \/ Combined \/ (pc \notin {"combine", "combined"} /\ combined = Nil)

LEMMA StartCombining ==
  ASSUME Typed, CombineRPoints
  PROVE  Combining'
<1>1. IsFiniteSet(Parties) /\ DOMAIN nonceShare = Parties
      /\ \A n \in Parties : nonceShare[n] \in Int
  BY PartiesFacts, OrderPrime DEF Scalar, Typed
<1> DEFINE f == [n \in Parties |-> ScalarBaseMult(nonceShare[n])]
<1>2. DOMAIN f = Parties /\ \A n \in Parties : f[n] = ScalarBaseMult(nonceShare[n])
  OBVIOUS
<1>3. combined' = [r |-> Abscissa(FoldFunction(Add, Infinity, f)),
                   SignatureShares |-> <<>>, s |-> Nil]
      /\ pc' = "combine" /\ todo' = Parties /\ nonceShare' = nonceShare
  BY DEF CombineRPoints
<1> HIDE DEF f
<1>4. FoldFunction(Add, Infinity, f) = ScalarBaseMult(SumFunctionOnSet(nonceShare, Parties))
  BY <1>1, <1>2, PointSum
<1>5. Abscissa(FoldFunction(Add, Infinity, f)) = CombineR'
  BY <1>1, <1>3, <1>4 DEF CombineR, SumFunction
<1>6. [n \in Parties \ todo' |-> MethodShare(n)'] = <<>>
  BY <1>3
<1> QED
  BY <1>3, <1>5, <1>6 DEF Combining

LEMMA ReceiveCombining ==
  ASSUME Typed, Combining, NEW n \in todo, ReceiveSignatureShare(n)
  PROVE  Combining'
<1> DEFINE had == [i \in Parties \ todo |-> MethodShare(i)]
           has == [i \in {n} \cup DOMAIN had |-> IF i = n THEN MethodShare(n) ELSE had[i]]
<1>1. combined = [r |-> CombineR, SignatureShares |-> had, s |-> Nil]
  BY DEF Combining
<1>2. /\ pc' = "combine" /\ todo' = todo \ {n}
      /\ UNCHANGED <<nonceShare, keyShare, hash>>
  BY DEF ReceiveSignatureShare, Combining
<1>3. (hash + combined.r * keyShare[n]) % Order = MethodShare(n)
  BY <1>1 DEF MethodShare
<1>4. combined' = [r |-> CombineR, SignatureShares |-> has, s |-> Nil]
  <2>1. combined' = [combined EXCEPT !.SignatureShares =
          [i \in {n} \cup DOMAIN combined.SignatureShares |->
             IF i = n THEN (hash + combined.r * keyShare[n]) % Order
                      ELSE combined.SignatureShares[i]]]
    BY DEF ReceiveSignatureShare
  <2> HIDE DEF had
  <2> QED
    BY <1>1, <1>3, <2>1
<1>5. CombineR' = CombineR /\ \A i : MethodShare(i)' = MethodShare(i)
  BY <1>2 DEF CombineR, MethodShare
<1>6. has = [i \in Parties \ (todo \ {n}) |-> MethodShare(i)]
  <2>1. n \in Parties
    BY DEF Typed
  <2>2. Parties \ (todo \ {n}) = {n} \cup DOMAIN had
    BY <2>1
  <2>3. \A i \in DOMAIN had : had[i] = MethodShare(i)
    OBVIOUS
  <2> HIDE DEF had
  <2> QED
    BY <2>2, <2>3
<1>7. [i \in Parties \ todo' |-> MethodShare(i)'] = [i \in Parties \ (todo \ {n}) |-> MethodShare(i)]
  BY <1>2, <1>5
<1> QED
  BY <1>2, <1>4, <1>5, <1>6, <1>7 DEF Combining

LEMMA CombineFinishes ==
  ASSUME Typed, Combining, CombineSignatureShares
  PROVE  Combined'
<1>0. Order \in Nat /\ Order > 0 /\ Scalar = 0 .. Order - 1 /\ NumParties \in Nat
  BY OrderPrime, PartiesFacts DEF Scalar
<1> DEFINE f == combined.SignatureShares
<1>1. /\ pc' = "combined" /\ UNCHANGED <<nonceShare, keyShare, hash>>
      /\ combined' = [combined EXCEPT !.s = SumOver(f, Order)]
      /\ AllShares
  BY DEF CombineSignatureShares
<1>2. f = [i \in Parties \ todo |-> MethodShare(i)] /\ combined.r = CombineR
      /\ combined' = [r |-> CombineR, SignatureShares |-> f, s |-> SumOver(f, Order)]
  BY <1>1 DEF Combining
<1>3. Parties \ todo = Parties
  <2>1. Cardinality(Parties \ todo) >= NumParties
    BY <1>1, <1>2 DEF AllShares
  <2>2. IsFiniteSet(Parties) /\ Cardinality(Parties) = NumParties
    BY PartiesFacts
  <2>3. /\ IsFiniteSet(Parties \ todo)
        /\ Cardinality(Parties \ todo) <= NumParties
        /\ Cardinality(Parties \ todo) = NumParties => Parties \ todo = Parties
    BY <2>2, FS_Subset
  <2>4. Cardinality(Parties \ todo) \in Nat
    BY <2>3, FS_CardinalityType
  <2> QED
    BY <1>0, <2>1, <2>3, <2>4
<1>4. DOMAIN f = Parties /\ \A n \in Parties : f[n] = MethodShare(n)
  BY <1>2, <1>3
<1> HIDE DEF f
<1>5. keyShare \in [Parties -> Scalar] /\ hash \in Int
  BY DEF Typed
<1>6. PICK r \in Int : r = CombineR
  <2>1. nonceShare \in [Parties -> Scalar]
    BY DEF Typed
  <2> PICK k \in Int : k = SumFunction(nonceShare)
    BY <2>1, SharesOfParties
  <2>2. Abscissa(ScalarBaseMult(k)) \in Scalar
    BY BaseMultiple, AbscissaType
  <2> QED
    BY <1>0, <2>2 DEF CombineR
<1>7. ASSUME NEW n \in Parties
      PROVE  f[n] \in Int /\ Congruent(f[n], hash + r * keyShare[n], Order)
  <2>1. keyShare[n] \in Int
    BY <1>0, <1>5
  <2> PICK w \in Int : w = hash + r * keyShare[n]
    BY <1>5, <2>1
  <2>2. f[n] = w % Order
    BY <1>4, <1>6 DEF MethodShare
  <2> QED
    BY <1>0, <2>2, CongruentRemainder
<1>8. /\ SumFunction(keyShare) \in Int /\ SumFunction(f) \in Int
      /\ Congruent(SumFunction(f), NumParties * hash + r * SumFunction(keyShare), Order)
  BY <1>4, <1>5, <1>7, SumOfParties
<1> PICK t \in Int : t = SumFunction(f)
  BY <1>8
<1>9. t % Order \in Scalar /\ Congruent(t % Order, t, Order)
  BY <1>0, Division, CongruentRemainder
<1>10. Congruent(t % Order, NumParties * hash + r * SumFunction(keyShare), Order)
  BY <1>8, <1>9, CongruentChain
<1>11. combined'.r = r /\ combined'.s = t % Order /\ CombineR' = r
  BY <1>1, <1>2, <1>6 DEF SumOver, CombineR
<1> QED
  BY <1>1, <1>9, <1>10, <1>11 DEF Combined

LEMMA CombinedSharesStep == Typed /\ CombinedShares /\ [Next]_vars => CombinedShares'
<1> SUFFICES ASSUME Typed, CombinedShares, [Next]_vars PROVE CombinedShares'
  OBVIOUS
<1>1. CASE CombineRPoints
  BY <1>1, StartCombining DEF CombinedShares
<1>2. ASSUME NEW n \in todo, ReceiveSignatureShare(n) PROVE CombinedShares'
  <2>1. Combining
    BY <1>2 DEF ReceiveSignatureShare, CombinedShares, Combined
  <2> QED
    BY <1>2, <2>1, ReceiveCombining DEF CombinedShares
<1>3. CASE CombineSignatureShares
  <2>1. Combining
    BY <1>3 DEF CombineSignatureShares, CombinedShares, Combined
  <2> QED
    BY <1>3, <2>1, CombineFinishes DEF CombinedShares
<1>4. CASE UNCHANGED vars
  BY <1>4 DEF CombinedShares, Combining, Combined, CombineR, MethodShare, vars, ecdsaVars
<1>5. ASSUME Next, ~ CombineRPoints, ~ CombineSignatureShares,
             ~ \E n \in todo : ReceiveSignatureShare(n)
      PROVE  /\ pc \notin {"combine", "combined"}
             /\ pc' \notin {"combine", "combined"}
             /\ combined' = combined
  BY <1>5 DEF Next, ECDSANext, GenerateSecretShare, GenerateNonceShare, CombinePublicKeyShares,
     ProveShare, Sign, SignFails, Verify, VerifyPanics, StartSum, ShareSecret, ReconstructSum,
     ShareOne
<1>6. ASSUME Next, ~ CombineRPoints, ~ CombineSignatureShares,
             ~ \E n \in todo : ReceiveSignatureShare(n)
      PROVE  CombinedShares'
  BY <1>5, <1>6 DEF CombinedShares, Combining, Combined
<1> QED
  BY <1>1, <1>2, <1>3, <1>4, <1>6

LEMMA CombinedScales == Typed /\ KeyFits /\ CombinedShares => MethodsSignScaledHash
<1> DEFINE kk == SumOver(nonceShare, Order)
           ss == combined.s * ModInverse(kk, Order)
<1> SUFFICES ASSUME Typed, KeyFits, CombinedShares, pc = "combined",
                    kk # 0, combined.s # 0, (NumParties * hash) % Order # 0
             PROVE  VerifyWithCurve(publicKey, NumParties * hash, combined.r, ss)
  BY DEF MethodsSignScaledHash, CombinedSigns
<1>0. Order \in Nat /\ Order > 0 /\ Order > 1 /\ IsPrime(Order) /\ Scalar = 0 .. Order - 1
      /\ NumParties \in Nat
  BY OrderPrime, PartiesFacts DEF Scalar
<1>1. Combined /\ publicKey = ScalarBaseMult(SumFunction(keyShare))
  BY DEF CombinedShares, Combining, KeyFits
<1>2. nonceShare \in [Parties -> Scalar] /\ keyShare \in [Parties -> Scalar] /\ hash \in Int
  BY DEF Typed
<1> PICK key \in Int, sum0 \in Int, h \in Int, cs \in Scalar :
      /\ key = SumFunction(keyShare) /\ sum0 = SumFunction(nonceShare)
      /\ h = NumParties * hash /\ cs = combined.s
  BY <1>0, <1>1, <1>2, SharesOfParties DEF Combined
<1>3. PICK k \in Scalar : k = kk /\ k = sum0 % Order
  BY <1>2, SharesOfParties DEF SumOver
<1>4. k \in Int /\ k % Order = k /\ k # 0 /\ cs \in Int /\ cs % Order = cs /\ cs # 0
  <2>1. k # 0 /\ cs # 0 /\ k \in 0 .. Order - 1 /\ cs \in 0 .. Order - 1
    BY <1>0, <1>3
  <2>2. k % Order = k /\ cs % Order = cs
    BY <1>0, <2>1, SmallRemainder
  <2>3. k \in Int /\ cs \in Int
    BY <1>0, <2>1
  <2> QED
    BY <2>1, <2>2, <2>3, Zenon
<1>5. PICK kInv \in Int : /\ kInv = ModInverse(k, Order) /\ (k * kInv) % Order = 1
                          /\ kInv \in 0 .. Order - 1 /\ kInv # 0
  <2>1. ModInverse(k, Order) \in 1 .. Order - 1 /\ (k * ModInverse(k, Order)) % Order = 1
    BY <1>0, <1>4, InverseExists
  <2> QED
    BY <1>0, <2>1
<1>6. PICK r \in Int : r = combined.r /\ r = Abscissa(ScalarBaseMult(k))
  <2>1. ScalarBaseMult(k) = ScalarBaseMult(sum0)
    BY <1>3, BaseMultiple
  <2>2. Abscissa(ScalarBaseMult(k)) \in Scalar
    BY <1>4, BaseMultiple, AbscissaType
  <2> QED
    BY <1>0, <1>1, <2>1, <2>2 DEF Combined, CombineR
<1>7. Congruent(cs, h + r * key, Order)
  BY <1>1, <1>6 DEF Combined
<1> PICK s \in Int, ki \in Int, one \in Int : s = cs * kInv /\ ki = k * kInv /\ one = 1
  BY <1>4
<1>8. s % Order # 0
  <2>1. kInv % Order # 0
    BY <1>0, <1>5, SmallRemainder
  <2>2. cs % Order # 0
    BY <1>4
  <2> QED
    BY <1>0, <1>4, <2>1, <2>2, NotZeroProduct
<1>9. Congruent(k * s, h + r * key, Order)
  <2>1. Congruent(ki, one, Order)
    <3>1. one \in 0 .. Order - 1
      BY <1>0
    <3>2. one % Order = one
      BY <1>0, <3>1, SmallRemainder, Zenon
    <3> QED
      BY <1>5, <3>2 DEF Congruent
  <2>2. Congruent(cs * ki, cs * one, Order)
    BY <1>0, <1>4, <2>1, CongruentScaled
  <2>3. cs * ki = k * s /\ cs * one = cs
    <3>1. cs * (k * kInv) = k * (cs * kInv)
      BY <1>4
    <3> QED
      BY <1>4, <3>1
  <2> QED
    BY <1>7, <2>2, <2>3, CongruentChain
<1>10. Fits(r, s, k, h, key)
  BY <1>6, <1>9 DEF Fits
<1>11. VerifyWithCurve(ScalarBaseMult(key), h, r, s)
  BY <1>4, <1>8, <1>10, FittingSignature
<1>12. ss = s
  BY <1>3, <1>5
<1> QED
  BY <1>1, <1>6, <1>11, <1>12
-----------------------------------------------------------------------------
(* What else there is to the types: the latest dealer, the sum that has     *)
(* been expected so far, and the results main has not come to.              *)
Dealt ==
  dealt # Nil =>
    /\ pc = "deal"
    /\ dealt.dealer \in Parties \ todo
    /\ \E secretOf \in Scalar : dealt.coefficients \in Coefficients(secretOf, Threshold, Order)

Counted ==
  /\ pc = "sum" => expected <= (NumParties - Cardinality(todo)) * Prime
  /\ pc = "summed" => expected <= NumParties * Prime
  /\ pc = "shared" => expected = 0

Pending ==
  /\ pc # "summed" => sum = Nil
  /\ pc # "shared" => secret = Nil /\ shares = <<>>

LEMMA DealtStep == Typed /\ Dealt /\ [Next]_vars => Dealt'
<1> SUFFICES ASSUME Typed, Dealt, [Next]_vars PROVE Dealt'
  OBVIOUS
<1>1. ASSUME NEW n \in todo, GenerateSecretShare(n) PROVE Dealt'
  <2>0. PICK s \in Scalar : \E c \in Coefficients(s, Threshold, Order) :
          dealt' = [dealer |-> n, coefficients |-> c]
    BY <1>1 DEF GenerateSecretShare
  <2>1. PICK c \in Coefficients(s, Threshold, Order) :
          dealt' = [dealer |-> n, coefficients |-> c]
    BY <2>0
  <2>2. pc' = "deal" /\ todo' = todo \ {n} /\ n \in Parties
    BY <1>1 DEF GenerateSecretShare, Typed
  <2> QED
    BY <2>1, <2>2 DEF Dealt
<1>2. CASE UNCHANGED vars
  BY <1>2 DEF Dealt, vars, ecdsaVars
<1>3. ASSUME Next, ~ \E n \in todo : GenerateSecretShare(n)
      PROVE  dealt' = Nil \/ (dealt' = dealt /\ pc # "deal")
  BY <1>3 DEF Next, ECDSANext, GenerateNonceShare, ReceiveSignatureShare,
     CombinePublicKeyShares, ProveShare, Sign, SignFails, Verify, VerifyPanics,
     CombineRPoints, CombineSignatureShares, StartSum, ShareSecret, ReconstructSum, ShareOne
<1> QED
  BY <1>1, <1>2, <1>3 DEF Dealt

LEMMA CountedStep == Typed /\ SumRecovered /\ Counted /\ [Next]_vars => Counted'
<1> SUFFICES ASSUME Typed, SumRecovered, Counted, [Next]_vars PROVE Counted'
  OBVIOUS
<1>0. /\ NumParties \in Nat /\ Prime \in Nat /\ Prime > 0 /\ expected \in Nat
      /\ IsFiniteSet(Parties) /\ Cardinality(Parties) = NumParties
      /\ IsFiniteSet(todo) /\ Cardinality(todo) \in Nat /\ Cardinality(todo) <= NumParties
  <2>1. IsFiniteSet(Parties) /\ Cardinality(Parties) = NumParties /\ todo \subseteq Parties
    BY PartiesFacts DEF Typed
  <2>2. IsFiniteSet(todo) /\ Cardinality(todo) <= NumParties
    BY <2>1, FS_Subset
  <2> QED
    BY <2>1, <2>2, PartiesFacts, FS_CardinalityType DEF Typed
<1>1. CASE StartSum
  <2>1. expected' = 0 /\ pc' = "sum" /\ todo' = Parties
    BY <1>1 DEF StartSum, sharingVars, SumRecovered
  <2>2. 0 <= (NumParties - NumParties) * Prime
    BY <1>0
  <2> QED
    BY <1>0, <2>1, <2>2 DEF Counted
<1>2. ASSUME NEW n \in todo, ShareSecret(n) PROVE Counted'
  <2>1. PICK value \in Secrets : expected' = expected + ReducedInPlace(value)
    BY <1>2 DEF ShareSecret
  <2>2. value \in Int
    BY SharingAssumption
  <2>3. PICK r \in 0 .. Prime - 1 : r = ReducedInPlace(value)
    BY <1>0, <2>2, Division DEF ReducedInPlace
  <2>4. pc = "sum" /\ pc' = "sum" /\ todo' = todo \ {n}
    BY <1>2 DEF ShareSecret
  <2>5. Cardinality(todo') = Cardinality(todo) - 1
    BY <1>0, <2>4, FS_RemoveElement
  <2>6. PICK t \in Nat : t = NumParties - Cardinality(todo)
    BY <1>0
  <2>7. NumParties - Cardinality(todo') = t + 1
    BY <1>0, <2>5, <2>6
  <2>8. expected <= t * Prime
    BY <2>4, <2>6 DEF Counted
  <2>9. (t + 1) * Prime = t * Prime + Prime
    BY <1>0
  <2>10. expected + r <= (t + 1) * Prime
    <3> PICK p \in Int : p = t * Prime
      BY <1>0
    <3> QED
      BY <1>0, <2>8, <2>9
  <2> QED
    BY <2>1, <2>3, <2>4, <2>7, <2>10 DEF Counted
<1>3. CASE ReconstructSum
  <2>1. pc = "sum" /\ pc' = "summed" /\ todo = {} /\ expected' = expected
    BY <1>3 DEF ReconstructSum
  <2>2. Cardinality(todo) = 0
    BY <2>1, FS_EmptySet
  <2>3. NumParties - 0 = NumParties
    BY <1>0
  <2> QED
    BY <2>1, <2>2, <2>3 DEF Counted
<1>4. CASE UNCHANGED vars
  BY <1>4 DEF Counted, vars, ecdsaVars, sharingVars
<1>5. ASSUME Next, ~ StartSum, ~ ReconstructSum, ~ \E n \in todo : ShareSecret(n)
      PROVE  pc' \notin {"sum", "summed"} /\ (pc' = "shared" => expected' = 0)
  BY <1>5 DEF Next, ECDSANext, GenerateSecretShare, GenerateNonceShare, ReceiveSignatureShare,
     CombinePublicKeyShares, ProveShare, Sign, SignFails, Verify, VerifyPanics,
     CombineRPoints, CombineSignatureShares, ShareOne
<1> QED
  BY <1>1, <1>2, <1>3, <1>4, <1>5 DEF Counted

LEMMA PendingStep == Pending /\ [Next]_vars => Pending'
<1> SUFFICES ASSUME Pending, [Next]_vars PROVE Pending'
  OBVIOUS
<1>1. CASE ECDSANext /\ UNCHANGED sharingVars
  <2>1. pc \notin {"summed", "shared"}
    BY <1>1 DEF ECDSANext, GenerateSecretShare, GenerateNonceShare, ReceiveSignatureShare,
       CombinePublicKeyShares, ProveShare, Sign, SignFails, Verify, VerifyPanics,
       CombineRPoints, CombineSignatureShares
  <2> QED
    BY <1>1, <2>1 DEF Pending, sharingVars
<1>2. CASE StartSum
  BY <1>2 DEF Pending, StartSum, sharingVars
<1>3. ASSUME NEW n \in todo, ShareSecret(n) PROVE Pending'
  BY <1>3 DEF Pending, ShareSecret
<1>4. CASE ReconstructSum
  BY <1>4 DEF Pending, ReconstructSum
<1>5. CASE ShareOne
  BY <1>5 DEF Pending, ShareOne
<1>6. CASE UNCHANGED vars
  BY <1>6 DEF Pending, vars, ecdsaVars, sharingVars
<1> QED
  BY <1>1, <1>2, <1>3, <1>4, <1>5, <1>6 DEF Next

(* The shares of one polynomial.                                            *)
LEMMA SharesType ==
  ASSUME SharedOne, pc = "shared"
  PROVE  /\ secret \in 0 .. Prime - 1
         /\ \A i \in DOMAIN shares : shares[i].X = i /\ shares[i].Y \in 0 .. Prime - 1
<1>0. Prime \in Nat /\ Prime > 0
  BY PartiesFacts
<1>1. PICK value \in Secrets : \E c \in Coefficients(value, SharingThreshold, Prime) :
        secret = value % Prime /\ shares = Shares(c, SharingParties, Prime)
  BY DEF SharedOne
<1>2. PICK c \in Coefficients(value, SharingThreshold, Prime) :
        secret = value % Prime /\ shares = Shares(c, SharingParties, Prime)
  BY <1>1
<1>3. value % Prime \in 0 .. Prime - 1
  BY <1>0, SharingFacts, Division
<1>4. c \in Seq(Int) /\ c # <<>> /\ c[1] \in 0 .. Prime - 1
  BY <1>0, <1>3, SharingFacts, CoefficientsType
<1>5. ASSUME NEW i \in 1 .. SharingParties
      PROVE  shares[i].X = i /\ shares[i].Y \in 0 .. Prime - 1
  <2>1. i \in Int /\ shares[i] = [X |-> i, Y |-> EvaluatePolynomial(c, i, Prime)]
    BY <1>2, SharingFacts DEF Shares
  <2>2. EvaluatePolynomial(c, i, Prime) \in 0 .. Prime - 1
    BY <1>0, <1>4, <2>1, EvaluatePolynomialType
  <2> QED
    BY <2>1, <2>2
<1>6. DOMAIN shares = 1 .. SharingParties
  BY <1>2 DEF Shares
<1> QED
  BY <1>2, <1>3, <1>5, <1>6
-----------------------------------------------------------------------------
(* What VerifyShare accepts.  Exp is what its recursion says.               *)
LEMMA ExpRecursion ==
  ASSUME NEW x \in Int, NEW n \in Nat
  PROVE  /\ \A j \in 0 .. n : Exp(x, n)[j] \in Int
         /\ Exp(x, n)[0] = 1
         /\ \A j \in 1 .. n : Exp(x, n)[j] = (Exp(x, n)[j - 1] * x) % Order
<1> DEFINE step == [p \in Int |-> (p * x) % Order]
           Body(g) == [j \in 0 .. n |-> IF j = 0 THEN 1 ELSE (g[j - 1] * x) % Order]
           it == CHOOSE g : g = Body(g)
<1>1. step \in [Int -> Int]
  <2> SUFFICES ASSUME NEW p \in Int PROVE (p * x) % Order \in Int
    OBVIOUS
  <2> PICK q \in Int : q = p * x
    BY ProductType
  <2> QED
    BY OrderPrime
<1>2. \A p \in Int : step[p] = (p * x) % Order
  OBVIOUS
<1> HIDE DEF step
<1> PICK one \in Int : one = 1
  OBVIOUS
<1>3. PICK f \in [0 .. n -> Int] : IteratesTo(f, n, one, step)
  BY <1>1, IntervalRecursion
<1>4. f = Body(f)
  <2>1. \A j \in 0 .. n : j # 0 => f[j - 1] \in Int
    OBVIOUS
  <2> QED
    BY <1>2, <1>3, <2>1 DEF IteratesTo
<1>5. it = Body(it)
  <2> HIDE DEF Body
  <2> QED
    BY <1>4
<1>6. Exp(x, n) = it
  BY DEF Exp
<1> HIDE DEF it
<1>7. it[0] = 1 /\ \A j \in 1 .. n : it[j] = (it[j - 1] * x) % Order
  <2>1. 0 \in 0 .. n /\ \A j \in 1 .. n : j \in 0 .. n /\ j # 0
    OBVIOUS
  <2>2. \A j \in 0 .. n : it[j] = IF j = 0 THEN 1 ELSE (it[j - 1] * x) % Order
    BY <1>5
  <2> QED
    BY <2>1, <2>2
<1>8. \A j \in 0 .. n : it[j] \in Int
  <2> DEFINE T == {j \in 0 .. n : it[j] \in Int}
  <2>1. 0 \in T
    BY <1>7
  <2>2. ASSUME NEW j \in 0 .. n - 1, j \in T PROVE j + 1 \in T
    <3>1. j + 1 \in 1 .. n /\ (j + 1) - 1 = j /\ j + 1 \in 0 .. n
      OBVIOUS
    <3> PICK p \in Int : p = it[j]
      BY <2>2
    <3>2. it[j + 1] = (p * x) % Order
      BY <1>7, <3>1
    <3> PICK q \in Int : q = p * x
      BY ProductType
    <3>3. q % Order \in Int
      BY OrderPrime
    <3> QED
      BY <3>1, <3>2, <3>3
  <2> HIDE DEF T
  <2>3. \A j \in 0 .. n : j \in T
    BY <2>1, <2>2, IntervalInduction
  <2> QED
    BY <2>3 DEF T
<1> QED
  BY <1>6, <1>7, <1>8

(* Points that are multiples of G by the numbers e.                         *)
MultiplesBy(e, points, S) == \A j \in S : points[j] = ScalarBaseMult(e[j])

(* EvaluateCommitments, for commitments that are multiples of G.            *)
LEMMA EvaluateCommitmentsIs ==
  ASSUME NEW n \in Nat, n > 0, NEW x \in Int, NEW e, Values(e, 1 .. n),
         NEW commitments \in [1 .. n -> CurvePoints], MultiplesBy(e, commitments, 1 .. n)
  PROVE  \E p \in [0 .. n -> Int] :
           /\ Terms(p, e, Exp(x, n), n)
           /\ EvaluateCommitments(commitments, x) = ScalarBaseMult(p[n])
<1>0. \A j \in 1 .. n : e[j] \in Int /\ commitments[j] = ScalarBaseMult(e[j])
  BY DEF Values, MultiplesBy
<1> DEFINE power == Exp(x, n)
           g == [j \in 1 .. n |-> e[j] * power[j - 1]]
           Body(f) == [j \in 1 .. n |->
             IF j = 1 THEN commitments[1]
                      ELSE Add(f[j - 1], ScalarMult(commitments[j], power[j - 1]))]
           it == CHOOSE f : f = Body(f)
<1>1. \A j \in 1 .. n : j - 1 \in 0 .. n /\ power[j - 1] \in Int
  <2>1. \A j \in 1 .. n : j - 1 \in 0 .. n
    OBVIOUS
  <2> QED
    BY <2>1, ExpRecursion
<1>2. power[0] = 1
  BY ExpRecursion
<1>3. EvaluateCommitments(commitments, x) = it[n]
  <2>1. Len(commitments) = n
    OBVIOUS
  <2> QED
    BY <2>1 DEF EvaluateCommitments
<1> HIDE DEF power
<1>4. ASSUME NEW j \in 1 .. n PROVE g[j] \in Int /\ g[j] = e[j] * power[j - 1]
  <2> PICK a \in Int, b \in Int : a = e[j] /\ b = power[j - 1]
    BY <1>0, <1>1
  <2> PICK c \in Int : c = a * b
    BY ProductType
  <2> QED
    OBVIOUS
<1> HIDE DEF g
<1>5. PICK p \in [0 .. n -> Int] : p[0] = 0 /\ \A j \in 1 .. n : p[j] = p[j - 1] + g[j]
  BY <1>4, TermsUpTo
<1> DEFINE h == [j \in 1 .. n |-> ScalarBaseMult(p[j])]
<1>6. ASSUME NEW j \in 1 .. n
      PROVE  h[j] = IF j = 1 THEN commitments[1]
                             ELSE Add(h[j - 1], ScalarMult(commitments[j], power[j - 1]))
  <2>1. j \in 0 .. n /\ j - 1 \in 0 .. n
    OBVIOUS
  <2> PICK q \in Int, a \in Int, b \in Int, c \in Int :
        q = p[j - 1] /\ a = e[j] /\ b = power[j - 1] /\ c = a * b
    <3> PICK a \in Int, b \in Int : a = e[j] /\ b = power[j - 1]
      BY <1>0, <1>1
    <3> PICK c \in Int : c = a * b
      BY ProductType
    <3>1. p[j - 1] \in Int
      BY <2>1
    <3> QED
      BY <3>1
  <2>2. p[j] = q + c /\ h[j] = ScalarBaseMult(q + c)
    <3>1. p[j] = q + c
      BY <1>4, <1>5
    <3> QED
      BY <3>1
  <2>3. CASE j = 1
    <3>1. q = 0 /\ b = 1
      BY <1>2, <1>5, <2>3
    <3>2. q + c = a
      BY <3>1
    <3> QED
      BY <1>0, <2>2, <2>3, <3>2
  <2>4. CASE j # 1
    <3>1. j - 1 \in 1 .. n
      BY <2>4
    <3>2. h[j - 1] = ScalarBaseMult(q)
      BY <3>1
    <3>3. ScalarMult(commitments[j], b) = ScalarBaseMult(c)
      <4>1. ScalarMult(ScalarBaseMult(a), b) = ScalarBaseMult(a * b)
        BY MultipleOfMultiple
      <4> QED
        BY <1>0, <4>1
    <3>4. Add(ScalarBaseMult(q), ScalarBaseMult(c)) = ScalarBaseMult(q + c)
      BY SumOfMultiples
    <3> HIDE DEF h
    <3> QED
      BY <2>2, <2>4, <3>2, <3>3, <3>4
  <2> QED
    BY <2>3, <2>4
<1>7. h = Body(h)
  <2>1. DOMAIN h = 1 .. n /\ h = [j \in 1 .. n |-> h[j]]
    OBVIOUS
  <2> HIDE DEF h
  <2> QED
    BY <1>6, <2>1
<1>8. it = Body(it)
  <2> HIDE DEF Body, h
  <2> QED
    BY <1>7
<1> HIDE DEF it, h
<1>9. \A j \in 0 .. n - 1 : it[j + 1] = h[j + 1]
  <2> DEFINE T == {j \in 0 .. n - 1 : it[j + 1] = h[j + 1]}
  <2>1. 0 \in T
    BY <1>7, <1>8
  <2>2. ASSUME NEW j \in 0 .. (n - 1) - 1, j \in T PROVE j + 1 \in T
    <3> PICK i \in 2 .. n : i = (j + 1) + 1 /\ i - 1 = j + 1
      OBVIOUS
    <3>1. i \in 1 .. n /\ i # 1
      OBVIOUS
    <3>2. it[i] = Add(it[i - 1], ScalarMult(commitments[i], power[i - 1]))
      BY <1>8, <3>1
    <3>3. h[i] = Add(h[i - 1], ScalarMult(commitments[i], power[i - 1]))
      BY <1>6, <3>1
    <3> HIDE DEF Body
    <3>4. it[i - 1] = h[i - 1]
      BY <2>2
    <3>5. j + 1 \in 0 .. n - 1
      OBVIOUS
    <3> QED
      BY <3>2, <3>3, <3>4, <3>5
  <2> HIDE DEF T
  <2>3. \A j \in 0 .. n - 1 : j \in T
    <3>1. n - 1 \in Nat
      OBVIOUS
    <3> QED
      BY <2>1, <2>2, <3>1, IntervalInduction
  <2> QED
    BY <2>3 DEF T
<1>10. it[n] = ScalarBaseMult(p[n])
  <2>1. n - 1 \in 0 .. n - 1 /\ (n - 1) + 1 = n /\ n \in 1 .. n
    OBVIOUS
  <2>2. it[n] = h[n]
    BY <1>9, <2>1
  <2> QED
    BY <2>1, <2>2 DEF h
<1> QED
  BY <1>3, <1>4, <1>5, <1>10 DEF power, Terms

(* The right side VerifyShare compares with: the coefficients' polynomial   *)
(* and twice that of the randomness, times G.                               *)
Blinded(c, r, x) == EvaluatePolynomial(c, x, Order) + 2 * EvaluatePolynomial(r, x, Order)

LEMMA CommitmentsEvaluate ==
  ASSUME NEW n \in Nat, n > 0, NEW x \in Int,
         NEW c \in [1 .. n -> Int], NEW r \in [1 .. n -> Int],
         NEW commitments, commitments = CommitPolynomial(c, r)
  PROVE  /\ commitments \in [1 .. n -> CurvePoints]
         /\ Blinded(c, r, x) \in Int
         /\ EvaluateCommitments(commitments, x) = ScalarBaseMult(Blinded(c, r, x))
<1>1. /\ c \in Seq(Int) /\ c # <<>> /\ n = Len(c)
      /\ r \in Seq(Int) /\ r # <<>> /\ n = Len(r)
      /\ \A j \in 1 .. n : c[j] \in Int /\ r[j] \in Int
  OBVIOUS
<1>2. Order \in Nat /\ Order > 0
  BY OrderPrime
<1> DEFINE e == [j \in 1 .. n |-> c[j] + 2 * r[j]]
<1>3. \A j \in 1 .. n : e[j] \in Int /\ e[j] = c[j] + 2 * r[j]
  BY <1>1
<1>4. DOMAIN c = 1 .. n /\ commitments = [j \in 1 .. n |-> commitments[j]]
  <2>1. DOMAIN c = 1 .. n
    OBVIOUS
  <2> QED
    BY <2>1 DEF CommitPolynomial
<1>5. ASSUME NEW j \in 1 .. n PROVE commitments[j] = ScalarBaseMult(e[j])
  <2> PICK a \in Int, b \in Int : a = c[j] /\ b = r[j]
    BY <1>1
  <2> PICK t \in Int, two \in Int : t = 2 * b /\ two = 2
    OBVIOUS
  <2>1. ScalarMult(ScalarBaseMult(two), b) = ScalarBaseMult(two * b)
    BY MultipleOfMultiple
  <2>2. Add(ScalarBaseMult(a), ScalarBaseMult(t)) = ScalarBaseMult(a + t)
    BY SumOfMultiples
  <2>3. commitments[j] = Add(ScalarBaseMult(a), ScalarMult(ScalarBaseMult(two), b))
    BY <1>4 DEF CommitPolynomial, H, ScalarBaseMult
  <2>4. e[j] = a + t
    BY <1>3
  <2> HIDE DEF e
  <2> QED
    BY <2>1, <2>2, <2>3, <2>4
<1>6. PICK v : /\ Values(v, 1 .. n + 1) /\ HornerSums(v, c, x, n, Order)
               /\ v[1] = EvaluatePolynomial(c, x, Order)
  BY <1>1, <1>2, HornerFromZero
<1>7. PICK w : /\ Values(w, 1 .. n + 1) /\ HornerSums(w, r, x, n, Order)
               /\ w[1] = EvaluatePolynomial(r, x, Order)
  BY <1>1, <1>2, HornerFromZero
<1> DEFINE u == [k \in 1 .. n + 1 |-> v[k] + 2 * w[k]]
<1>8. ASSUME NEW k \in 1 .. n + 1 PROVE u[k] \in Int /\ u[k] = v[k] + 2 * w[k]
  <2> PICK a \in Int, b \in Int : a = v[k] /\ b = w[k]
    BY <1>6, <1>7 DEF Values
  <2>1. u[k] = a + 2 * b
    OBVIOUS
  <2> HIDE DEF u
  <2> QED
    BY <2>1
<1> HIDE DEF e, u
<1>9. PICK p \in [0 .. n -> Int] :
        /\ Terms(p, e, Exp(x, n), n)
        /\ EvaluateCommitments(commitments, x) = ScalarBaseMult(p[n])
  <2>1. Values(e, 1 .. n)
    BY <1>3 DEF Values
  <2>2. MultiplesBy(e, commitments, 1 .. n)
    BY <1>5 DEF MultiplesBy
  <2>3. \A j \in 1 .. n : commitments[j] \in CurvePoints
    BY <1>3, <1>5, BaseMultiple
  <2>4. commitments \in [1 .. n -> CurvePoints]
    BY <1>4, <2>3
  <2> QED
    BY <2>1, <2>2, <2>4, EvaluateCommitmentsIs
<1> DEFINE power == Exp(x, n)
<1>10. /\ Values(power, 0 .. n) /\ Terms(p, e, power, n)
       /\ power[0] = 1 /\ \A j \in 1 .. n : power[j] = (power[j - 1] * x) % Order
  BY <1>9, ExpRecursion DEF Values
<1>11. ASSUME NEW j \in 1 .. n PROVE Congruent(power[j], power[j - 1] * x, Order)
  <2>1. j - 1 \in 0 .. n
    OBVIOUS
  <2> PICK b \in Int : b = power[j - 1]
    BY <1>10, <2>1 DEF Values
  <2> PICK d \in Int : d = b * x
    BY ProductType
  <2>2. power[j] = d % Order
    BY <1>10
  <2> QED
    BY <1>2, <2>2, CongruentRemainder
<1>12. ASSUME NEW j \in 1 .. n PROVE Congruent(u[j], u[j + 1] * x + e[j], Order)
  <2>1. j \in 1 .. n + 1 /\ j + 1 \in 1 .. n + 1
    OBVIOUS
  <2> PICK a \in Int, b \in Int, vj \in Int, wj \in Int, v1 \in Int, w1 \in Int :
        a = c[j] /\ b = r[j] /\ vj = v[j] /\ wj = w[j] /\ v1 = v[j + 1] /\ w1 = w[j + 1]
    BY <1>1, <1>6, <1>7, <2>1 DEF Values
  <2>2. Congruent(vj, v1 * x + a, Order) /\ Congruent(wj, w1 * x + b, Order)
    BY <1>6, <1>7 DEF HornerSums
  <2>3. Congruent(vj + 2 * wj, (v1 + 2 * w1) * x + (a + 2 * b), Order)
    BY <1>2, <2>2, BlindedStep
  <2>4. u[j] = vj + 2 * wj /\ u[j + 1] = v1 + 2 * w1 /\ e[j] = a + 2 * b
    BY <1>3, <1>8, <2>1
  <2> QED
    BY <2>3, <2>4
<1>13. u[n + 1] = 0
  <2>1. n + 1 \in 1 .. n + 1 /\ 0 + 2 * 0 = 0
    OBVIOUS
  <2> QED
    BY <1>6, <1>7, <1>8, <2>1 DEF HornerSums
<1>14. Values(e, 1 .. n)
  BY <1>3 DEF Values
<1>15. Values(u, 1 .. n + 1)
  BY <1>8 DEF Values
<1>16. Congruent(p[n], u[1], Order)
  <2>1. PowersOf(x, power, n, Order)
    BY <1>10, <1>11 DEF PowersOf
  <2>2. HornerSums(u, e, x, n, Order)
    BY <1>12, <1>13 DEF HornerSums
  <2> QED
    BY <1>2, <1>10, <1>14, <1>15, <2>1, <2>2, TermsAreHorner
<1>17. 1 \in 1 .. n + 1 /\ n \in 0 .. n
  OBVIOUS
<1>18. EvaluateCommitments(commitments, x) = ScalarBaseMult(u[1])
  <2> PICK a \in Int, b \in Int : a = p[n] /\ b = u[1]
    BY <1>10, <1>15, <1>17 DEF Values
  <2>1. ScalarBaseMult(a) = ScalarBaseMult(a % Order) /\ ScalarBaseMult(b) = ScalarBaseMult(b % Order)
    BY BaseMultiple
  <2>2. a % Order = b % Order
    BY <1>16 DEF Congruent
  <2> QED
    BY <1>9, <2>1, <2>2
<1>19. u[1] = EvaluatePolynomial(c, x, Order) + 2 * EvaluatePolynomial(r, x, Order)
  BY <1>6, <1>7, <1>8, <1>17
<1>21. commitments \in [1 .. n -> CurvePoints]
  <2>1. \A j \in 1 .. n : commitments[j] \in CurvePoints
    BY <1>3, <1>5, BaseMultiple
  <2> QED
    BY <1>4, <2>1
<1>22. Blinded(c, r, x) = u[1] /\ u[1] \in Int
  BY <1>15, <1>17, <1>19 DEF Blinded, Values
<1> QED
  BY <1>18, <1>21, <1>22

(* The values VerifyShare accepts, for honest commitments.                  *)
AcceptsOnly(value, x, commitments) ==
  {y \in 0 .. 2 * Order : VerifyShare(y, x, commitments)}
    = IF \E i \in DOMAIN commitments : commitments[i] = Infinity THEN {} ELSE {value % Order}

LEMMA AcceptedValues ==
  ASSUME NEW n \in Nat, n > 0, NEW x \in Int,
         NEW c \in [1 .. n -> Int], NEW r \in [1 .. n -> Int],
         NEW commitments, commitments = CommitPolynomial(c, r)
  PROVE  AcceptsOnly(Blinded(c, r, x), x, commitments)
<1>1. commitments \in [1 .. n -> CurvePoints]
  BY CommitmentsEvaluate
<1>0. /\ Blinded(c, r, x) \in Int
      /\ EvaluateCommitments(commitments, x) = ScalarBaseMult(Blinded(c, r, x))
  BY CommitmentsEvaluate, SMTT(20)
<1> PICK t \in Int : t = Blinded(c, r, x)
  BY <1>0
<1>2. EvaluateCommitments(commitments, x) = ScalarBaseMult(t)
  BY <1>0
<1>3. \A y : VerifyShare(y, x, commitments) <=>
               /\ \A j \in DOMAIN commitments : commitments[j] # Infinity
               /\ y \in Scalar /\ ScalarBaseMult(y) = ScalarBaseMult(t)
  <2>1. commitments # <<>>
    <3>1. 1 \in DOMAIN commitments
      BY <1>1
    <3>2. 1 \notin DOMAIN <<>>
      OBVIOUS
    <3> QED
      BY <3>1, <3>2
  <2>2. \A j \in DOMAIN commitments : IsOnCurve(commitments[j]) <=> commitments[j] # Infinity
    <3>1. Infinity \notin Affine
      BY CurveAssumption
    <3> QED
      BY <1>1, <3>1 DEF IsOnCurve, CurvePoints
  <2> QED
    BY <1>2, <2>1, <2>2 DEF VerifyShare
<1>4. t % Order \in Scalar /\ ScalarBaseMult(t % Order) = ScalarBaseMult(t)
  <2>1. t % Order \in 0 .. Order - 1
    BY OrderPrime, Division
  <2> QED
    BY <2>1, BaseMultiple DEF Scalar
<1>5. ASSUME NEW y \in Scalar, ScalarBaseMult(y) = ScalarBaseMult(t) PROVE y = t % Order
  <2>1. y \in 0 .. Order - 1 /\ y \in Int /\ Order \in Nat /\ Order > 0
    BY OrderPrime DEF Scalar
  <2>2. y % Order = t % Order
    BY <1>5, <2>1, MultiplesDiffer
  <2>3. y % Order = y
    BY <2>1, SmallRemainder
  <2> QED
    BY <2>2, <2>3
<1>6. \A y \in Scalar : y \in 0 .. 2 * Order
  BY OrderPrime DEF Scalar
<1>7. {y \in 0 .. 2 * Order : VerifyShare(y, x, commitments)}
        = IF \E i \in DOMAIN commitments : commitments[i] = Infinity THEN {} ELSE {t % Order}
  <2> PICK z : z = t % Order
    OBVIOUS
  <2>1. z \in Scalar /\ ScalarBaseMult(z) = ScalarBaseMult(t)
        /\ \A y \in Scalar : ScalarBaseMult(y) = ScalarBaseMult(t) => y = z
    BY <1>4, <1>5
  <2> QED
    BY <1>3, <1>6, <2>1
<1> QED
  BY <1>7 DEF AcceptsOnly

LEMMA OneAccepted == Dealt => OneShareAccepted
<1> SUFFICES ASSUME Dealt, dealt # Nil, NEW randomness \in [1 .. Threshold -> Scalar]
             PROVE
      LET commitments == CommitPolynomial(dealt.coefficients, randomness)
          At(coefficients) == EvaluatePolynomial(coefficients, dealt.dealer + 1, Order)
      IN {y \in 0 .. 2 * Order : DKGVerifyShare(dealt.dealer, y, commitments)}
           = IF \E i \in DOMAIN commitments : commitments[i] = Infinity
               THEN {}
               ELSE {(At(dealt.coefficients) + 2 * At(randomness)) % Order}
  BY DEF OneShareAccepted
<1>1. Threshold \in Nat /\ Threshold > 0
  BY PartiesFacts
<1>2. dealt.dealer + 1 \in Int
  <2>1. dealt.dealer \in Parties
    BY DEF Dealt
  <2>2. dealt.dealer \in Nat
    BY <2>1, PartiesFacts
  <2> QED
    BY <2>2
<1>3. dealt.coefficients \in [1 .. Threshold -> Int]
  <2>1. PICK s \in Scalar : dealt.coefficients \in Coefficients(s, Threshold, Order)
    BY DEF Dealt
  <2>2. s \in Int /\ Order \in Nat /\ Order > 0
    BY OrderPrime DEF Scalar
  <2>3. dealt.coefficients \in Seq(Int) /\ Len(dealt.coefficients) = Threshold
    BY <1>1, <2>1, <2>2, CoefficientsType
  <2> QED
    BY <2>3
<1>4. randomness \in [1 .. Threshold -> Int]
  <2>1. \A a \in Scalar : a \in Int
    BY OrderPrime DEF Scalar
  <2> QED
    BY <2>1
<1> DEFINE commitments == CommitPolynomial(dealt.coefficients, randomness)
           x == dealt.dealer + 1
           c == dealt.coefficients
<1> HIDE DEF commitments, x, c
<1>5. AcceptsOnly(Blinded(c, randomness, x), x, commitments)
  <2>1. x \in Int /\ c \in [1 .. Threshold -> Int] /\ commitments = CommitPolynomial(c, randomness)
    BY <1>2, <1>3 DEF x, c, commitments
  <2> QED
    BY <1>1, <1>4, <2>1, AcceptedValues
<1> QED
  BY <1>5 DEF x, c, commitments, Blinded, DKGVerifyShare, AcceptsOnly
-----------------------------------------------------------------------------
(* All of it together is inductive.                                         *)
Numbers ==
  /\ Typed
  /\ ProofOfShare
  /\ KeyRecovered
  /\ SumRecovered
  /\ SharedOne
  /\ KeyFits
  /\ SignatureFits
  /\ CombinedShares
  /\ Dealt
  /\ Counted
  /\ Pending

LEMMA NumbersInit == DemoInit => Numbers
<1> SUFFICES ASSUME DemoInit PROVE Numbers
  OBVIOUS
<1>1. Typed /\ KeyRecovered /\ SumRecovered
  BY TypedInit, RecoveredInit
<1>2. ProofOfShare /\ SharedOne /\ KeyFits /\ SignatureFits /\ CombinedShares
      /\ Dealt /\ Counted /\ Pending
  BY DEF DemoInit, Init, ProofOfShare, SharedOne, KeyFits, SignatureFits, CombinedShares,
     Dealt, Counted, Pending
<1> QED
  BY <1>1, <1>2 DEF Numbers

LEMMA NumbersStep == Numbers /\ [Next]_vars => Numbers'
BY TypedStep, ProofStep, KeyRecoveredStep, SumRecoveredStep, SharedOneStep, KeyFitsStep,
   SignatureFitsStep, CombinedSharesStep, DealtStep, CountedStep, PendingStep DEF Numbers

LEMMA AlwaysNumbers == Spec => []Numbers
BY NumbersInit, NumbersStep, PTL DEF Spec

LEMMA NumbersTyped == Numbers => TypeOK
<1> SUFFICES ASSUME Numbers PROVE TypeOK
  OBVIOUS
<1>1. Typed
  BY DEF Numbers
<1>2. ASSUME pc \notin {"sum", "summed", "shared"} PROVE ECDSATypeOK
  <2>1. dealt # Nil => dealt.dealer \in Parties \ todo
    BY DEF Numbers, Dealt
  <2>2. signature # Nil => signature.r \in Scalar /\ signature.s \in Scalar
    BY DEF Numbers, SignatureFits, Signed
  <2>3. combined # Nil => combined.s \in Scalar \cup {Nil}
    BY DEF Numbers, CombinedShares, Combining, Combined
  <2> QED
    BY <1>1, <1>2, <2>1, <2>2, <2>3 DEF Typed, ECDSATypeOK
<1>3. expected \in 0 .. NumParties * Prime
  <2>1. NumParties * Prime \in Nat /\ NumParties \in Nat /\ Prime \in Nat
    BY PartiesFacts
  <2>2. CASE pc = "sum"
    <3>1. todo \subseteq Parties /\ IsFiniteSet(Parties)
      BY <1>1, PartiesFacts DEF Typed
    <3>2. IsFiniteSet(todo) /\ Cardinality(todo) <= NumParties
      BY <3>1, PartiesFacts, FS_Subset
    <3>3. PICK c \in Nat : c = Cardinality(todo) /\ c <= NumParties
      BY <3>2, FS_CardinalityType
    <3>4. expected <= (NumParties - c) * Prime
      BY <2>2, <3>3 DEF Numbers, Counted
    <3>5. (NumParties - c) * Prime = NumParties * Prime - c * Prime
      BY <2>1
    <3>6. c * Prime >= 0
      BY <2>1
    <3> QED
      BY <1>1, <2>1, <3>4, <3>5, <3>6 DEF Typed
  <2>3. CASE pc = "summed"
    BY <1>1, <2>1, <2>3 DEF Numbers, Counted, Typed
  <2>4. CASE pc = "shared"
    BY <2>1, <2>4 DEF Numbers, Counted
  <2>5. CASE pc \notin {"sum", "summed", "shared"}
    BY <2>1, <2>5 DEF Numbers, SumRecovered
  <2> QED
    BY <2>2, <2>3, <2>4, <2>5
<1>4. sum \in 0 .. Prime - 1 \cup {Nil}
  <2>1. expected % Prime \in 0 .. Prime - 1
    BY <1>1, PartiesFacts, Division DEF Typed
  <2> QED
    BY <2>1 DEF Numbers, SumRecovered, Pending
<1>5. /\ secret \in 0 .. Prime - 1 \cup {Nil}
      /\ \A i \in DOMAIN shares : shares[i].X = i /\ shares[i].Y \in 0 .. Prime - 1
  BY SharesType DEF Numbers, Pending
<1> QED
  BY <1>1, <1>2, <1>3, <1>4, <1>5 DEF TypeOK, Typed
-----------------------------------------------------------------------------
(* Whatever the curve, the fields, the number of parties and the threshold, *)
(* every state of the demo's numbers has its type.                          *)
THEOREM NumbersType == Spec => []TypeOK
BY AlwaysNumbers, NumbersTyped, PTL

(* Any Threshold or more key shares, in any order, interpolate to the sum   *)
(* of the dealers' secrets.  (GenerateSecretShare, Reconstruct.)            *)
THEOREM KeySharesSafe == Spec => []KeySharesRecoverSecrets
<1>1. Numbers => KeySharesRecoverSecrets
  BY KeyOfSecrets DEF Numbers
<1> QED
  BY <1>1, AlwaysNumbers, PTL

(* The verification main runs succeeds for every key, nonce, message and    *)
(* order of collection, unless the hash is 0.  (SignPhase,                  *)
(* VerifyWithCurve.)                                                        *)
THEOREM SignatureSafe == Spec => []VerificationSucceeds
<1>1. Numbers => VerificationSucceeds
  BY VerifiedSucceeds DEF Numbers
<1> QED
  BY <1>1, AlwaysNumbers, PTL

(* VerifyProof accepts exactly the responses congruent to the honest one    *)
(* modulo the order, however large: it has no range check.                  *)
(* (ProveKnowledge, VerifyProof.)                                           *)
THEOREM ResponseSafe == Spec => []OnlyTrueResponse
<1>1. Numbers => OnlyTrueResponse
  BY ResponsesChecked DEF Numbers
<1> QED
  BY <1>1, AlwaysNumbers, PTL

(* An honest proof of a signature share is rejected at the edges only.      *)
(* (ProveSignatureShare, VerifySignatureShareProof.)                        *)
THEOREM EdgesSafe == Spec => []HonestProofRejectedAtEdges
<1>1. Numbers => HonestProofRejectedAtEdges
  BY EdgesRejected DEF Numbers
<1> QED
  BY <1>1, AlwaysNumbers, PTL

(* The methods of NodeSigning sign NumParties times the hash.  (ComputeR,   *)
(* ComputeSignatureShare, CombineSignatureShares.)                          *)
THEOREM MethodsSafe == Spec => []MethodsSignScaledHash
<1>1. Numbers => MethodsSignScaledHash
  BY CombinedScales DEF Numbers
<1> QED
  BY <1>1, AlwaysNumbers, PTL

(* The reconstructed sum is the expected one exactly if that is less than   *)
(* the prime.  (demoSumComputation.)                                        *)
THEOREM SumSafe == Spec => []SumMatchesBelowPrime
<1>1. Numbers => SumMatchesBelowPrime
  BY SumOfSecrets DEF Numbers
<1> QED
  BY <1>1, AlwaysNumbers, PTL

(* Any k or more shares of demoSecretSharing reconstruct the secret.        *)
(* (Share, Reconstruct.)                                                    *)
THEOREM SharesSafe == Spec => []AnySharesReconstruct
<1>1. Numbers => AnySharesReconstruct
  BY AnyReconstruct DEF Numbers
<1> QED
  BY <1>1, AlwaysNumbers, PTL

(* k - 1 of its shares are consistent with every secret, each in one way:   *)
(* through them and the guess at 0 there is one polynomial with k           *)
(* coefficients.  (Share.)                                                  *)
THEOREM FewerSharesSafe == Spec => []FewerSharesTellNothing
<1>1. Numbers => FewerSharesTellNothing
  BY FewerTellNothing DEF Numbers
<1> QED
  BY <1>1, AlwaysNumbers, PTL

(* VerifyShare accepts one value per dealer, and none with a commitment at  *)
(* infinity.  (VerifyShare of dkg.go and of commitments.go.)                *)
THEOREM OneShareSafe == Spec => []OneShareAccepted
<1>1. Numbers => OneShareAccepted
  BY OneAccepted DEF Numbers
<1> QED
  BY <1>1, AlwaysNumbers, PTL
=============================================================================
