----------------------------- MODULE PedersenVSS -----------------------------
(* The arithmetic of internal/zkproof/commitments.go.                       *)
EXTENDS ECDSA

H == ScalarMult(Base, 2)    \* NewPedersenVSS: the second generator

(* CommitPolynomial: C_i = a_i * G + r_i * H.                               *)
CommitPolynomial(coefficients, randomness) ==
  [i \in DOMAIN coefficients |->
     Add(ScalarBaseMult(coefficients[i]), ScalarMult(H, randomness[i]))]

(* The powers of index that big.Int.Exp yields, modulo the order.           *)
Exp(index, n) ==
  LET power[j \in 0 .. n] == IF j = 0 THEN 1 ELSE (power[j - 1] * index) % Order
  IN power

(* The commitments' polynomial at index: the constant term, and then the    *)
(* terms of higher degree one after the other.                              *)
EvaluateCommitments(commitments, index) ==
  LET n == Len(commitments)
      power == Exp(index, n)
      right[j \in 1 .. n] ==
        IF j = 1 THEN commitments[1]
                 ELSE Add(right[j - 1], ScalarMult(commitments[j], power[j - 1]))
  IN right[n]

(* Mutant of VerifyShare: the share value is not checked for its range.     *)
VerifyShareOfAnySize(shareValue, index, commitments) ==
  /\ commitments # <<>>
  /\ \A j \in DOMAIN commitments : IsOnCurve(commitments[j])
  /\ ScalarBaseMult(shareValue) = EvaluateCommitments(commitments, index)

(* VerifyShare: a commitment at infinity is not on the curve.               *)
VerifyShare(shareValue, index, commitments) ==
  /\ commitments # <<>>
  /\ \A j \in DOMAIN commitments : IsOnCurve(commitments[j])
  /\ shareValue \in Scalar
  /\ ScalarBaseMult(shareValue) = EvaluateCommitments(commitments, index)
=============================================================================
