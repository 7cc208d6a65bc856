---------------------------- MODULE SecretSharing ----------------------------
(***************************************************************************)
(* The arithmetic of internal/secretsharing.  SecretSharing (sharing.go,   *)
(* modulo a field prime) and ECSecretSharing (ec_sharing.go, modulo the    *)
(* order of the curve) are the same code; here the modulus m is a          *)
(* parameter.  big.Int does not overflow, and its Mod is never negative,   *)
(* like TLA+'s %.                                                          *)
(***************************************************************************)
EXTENDS Integers, Sequences, SequencesExt

IsPrime(m) == m \in Nat /\ m > 1 /\ \A i \in 2 .. m - 1 : m % i # 0

(* big.Int.ModInverse: nil, which is not modelled, unless a % m # 0.        *)
ModInverse(a, m) == CHOOSE i \in 1 .. m - 1 : (a * i) % m = 1

(* What Share draws: the secret, reduced, and k - 1 random coefficients.    *)
Coefficients(secret, k, m) ==
  {<<secret % m>> \o c : c \in [1 .. k - 1 -> 0 .. m - 1]}

(* Horner's method, from the last coefficient down.                         *)
EvaluatePolynomial(coefficients, x, m) ==
  FoldRight(LAMBDA a, y : (y * x + a) % m, Front(coefficients), Last(coefficients))

(* Mutant of Shares: the first share is the value at 0.                     *)
SharesFromZero(coefficients, n, m) ==
  [i \in 1 .. n |-> [X |-> i, Y |-> EvaluatePolynomial(coefficients, i - 1, m)]]

(* The share at position i has the x coordinate i, counting from 1.         *)
Shares(coefficients, n, m) ==
  [i \in 1 .. n |-> [X |-> i, Y |-> EvaluatePolynomial(coefficients, i, m)]]

(* L_i(0): the product of (0 - x_j) / (x_i - x_j) over the other points.    *)
LagrangeCoefficient(points, i, m) ==
  LET others == DOMAIN points \ {i}
      Product(factor) ==
        FoldFunctionOnSet(LAMBDA a, b : (a * b) % m, 1, factor, others)
      numerator == Product([j \in others |-> 0 - points[j].X])
      denominator == Product([j \in others |-> points[i].X - points[j].X])
  IN (numerator * ModInverse(denominator, m)) % m

(* Interpolation at 0 of a sequence of at least two points.                 *)
Reconstruct(points, m) ==
  MapThenSumSet(LAMBDA i : points[i].Y * LagrangeCoefficient(points, i, m),
                DOMAIN points) % m
=============================================================================
