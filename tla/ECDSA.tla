-------------------------------- MODULE ECDSA --------------------------------
(***************************************************************************)
(* internal/ecdsa: the wrappers of crypto/elliptic and VerifyWithCurve.    *)
(* The curve is a small one of the same form as P-256,                     *)
(*     y^2 = x^3 - 3x + CurveB  modulo FieldPrime,                         *)
(* whose points form a group of prime order.  As in crypto/elliptic the    *)
(* point at infinity is written (0, 0), and is not on the curve.           *)
(***************************************************************************)
EXTENDS SecretSharing

CONSTANTS
  FieldPrime,  \* the field of the coordinates
  CurveB,      \* the curve's constant term
  Base,        \* the generator G
  Order        \* n, the order of G

Coordinate == 0 .. FieldPrime - 1
Scalar == 0 .. Order - 1
Infinity == <<0, 0>>

Affine ==
  {P \in Coordinate \X Coordinate :
     (P[2] * P[2]) % FieldPrime = (P[1] * P[1] * P[1] - 3 * P[1] + CurveB) % FieldPrime}
CurvePoints == Affine \cup {Infinity}

ASSUME CurveAssumption ==
  /\ IsPrime(FieldPrime) /\ FieldPrime > 3
  /\ Infinity \notin Affine
  /\ Base \in Affine
  /\ IsPrime(Order) /\ Cardinality(CurvePoints) = Order

(* The chord through two points of different abscissa, or the tangent.      *)
Slope(P, Q) ==
  IF P = Q THEN (3 * P[1] * P[1] - 3) * ModInverse(2 * P[2], FieldPrime)
           ELSE (Q[2] - P[2]) * ModInverse(Q[1] - P[1], FieldPrime)

ChordSum(P, Q) ==
  LET x == (Slope(P, Q) * Slope(P, Q) - P[1] - Q[1]) % FieldPrime
  IN <<x, (Slope(P, Q) * (P[1] - x) - P[2]) % FieldPrime>>

Opposite(P, Q) == P[1] = Q[1] /\ (P[2] + Q[2]) % FieldPrime = 0

Sums ==
  [PQ \in CurvePoints \X CurvePoints |->
     CASE PQ[1] = Infinity -> PQ[2]
       [] PQ[2] = Infinity -> PQ[1]
       [] PQ[1] # Infinity /\ PQ[2] # Infinity ->
            IF Opposite(PQ[1], PQ[2]) THEN Infinity ELSE ChordSum(PQ[1], PQ[2])]

Add(P, Q) == Sums[<<P, Q>>]

Multiples ==
  [P \in CurvePoints |->
     LET multiple[k \in Scalar] ==
           IF k = 0 THEN Infinity ELSE Add(multiple[k - 1], P)
     IN multiple]

ScalarMult(P, k) == Multiples[P][k % Order]
ScalarBaseMult(k) == ScalarMult(Base, k)
IsOnCurve(P) == P \in Affine

(* What the package takes from crypto/elliptic: the points are a group      *)
(* under Add, and Order is the order of the generator.                      *)
ASSUME GroupAssumption ==
  /\ \A P, Q \in CurvePoints : Add(P, Q) \in CurvePoints
  /\ \A P, Q, R \in CurvePoints : Add(Add(P, Q), R) = Add(P, Add(Q, R))
  /\ \A k \in 1 .. Order - 1 : ScalarBaseMult(k) # Infinity
  /\ Add(ScalarBaseMult(Order - 1), Base) = Infinity

(* r of a nonce point: its abscissa modulo the order.                       *)
Abscissa(P) == P[1] % Order

(* VerifyWithCurve, for s with an inverse modulo the order (for s = 0 the   *)
(* inverse is nil and its use panics).  A hash of 0 is taken for 1.         *)
VerifyWithCurve(publicKey, hash, r, s) ==
  LET e == IF hash % Order = 0 THEN 1 ELSE hash % Order
      w == ModInverse(s, Order)
  IN Abscissa(Add(ScalarBaseMult(e * w), ScalarMult(publicKey, r * w))) = r
=============================================================================
