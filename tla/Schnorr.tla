------------------------------- MODULE Schnorr -------------------------------
(***************************************************************************)
(* The arithmetic of internal/zkproof/schnorr.go.  The context of a proof  *)
(* only enters a challenge by the sum of its bytes, and is represented by  *)
(* that sum.                                                               *)
(***************************************************************************)
EXTENDS ECDSA

(* Mutant of Challenge: a zero challenge is left alone.                     *)
ChallengeMaybeZero(R, P, context) == (R[1] + R[2] + P[1] + P[2] + context) % Order

(* generateChallenge: coordinates and bytes added up; 0 becomes 1.          *)
Challenge(R, P, context) ==
  LET hash == (R[1] + R[2] + P[1] + P[2] + context) % Order
  IN IF hash = 0 THEN 1 ELSE hash

(* Mutant of ProveKnowledge: the response is c * s - r.                     *)
ProveWithNegatedNonce(secret, publicPoint, context, r) ==
  LET R == ScalarBaseMult(r)
      c == Challenge(R, publicPoint, context)
  IN [R |-> R, Challenge |-> c, Response |-> (c * secret - r) % Order]

(* ProveKnowledge, having drawn the random r.                               *)
ProveKnowledge(secret, publicPoint, context, r) ==
  LET R == ScalarBaseMult(r)
      c == Challenge(R, publicPoint, context)
  IN [R |-> R, Challenge |-> c, Response |-> (c * secret + r) % Order]

(* z * G = R + c * P.                                                       *)
ResponseFits(proof, publicPoint) ==
  ScalarBaseMult(proof.Response)
    = Add(proof.R, ScalarMult(publicPoint, proof.Challenge))

(* VerifyProof.                                                             *)
VerifyProof(proof, publicPoint, context) ==
  /\ proof.Challenge = Challenge(proof.R, publicPoint, context)
  /\ ResponseFits(proof, publicPoint)

(* The sum of the bytes of n, which has no more than n \div 256 after the    *)
(* first one.                                                               *)
ByteSum(n) ==
  LET last == n \div 256
      rest[j \in 0 .. last] == IF j = 0 THEN n ELSE rest[j - 1] \div 256
  IN SumFunction([j \in 0 .. last |-> rest[j] % 256])

(* The bytes ProveSignatureShare and VerifySignatureShareProof append to    *)
(* each other.                                                              *)
ShareContext(r, messageHash, signatureShare) ==
  ByteSum(r) + ByteSum(messageHash) + ByteSum(signatureShare)

(* ProveSignatureShare: the public point is computed from the key share.    *)
ProveSignatureShare(privateKeyShare, context, r) ==
  ProveKnowledge(privateKeyShare, ScalarBaseMult(privateKeyShare), context, r)

(* Mutant of VerifySignatureShareProof: a zero response is accepted.        *)
VerifyShareProofOfZero(proof, publicKeyShare, context) ==
  /\ proof.Challenge # 0
  /\ IsOnCurve(proof.R)
  /\ IsOnCurve(publicKeyShare)
  /\ proof.Challenge = Challenge(proof.R, publicKeyShare, context)
  /\ ResponseFits(proof, publicKeyShare)

(* VerifySignatureShareProof.                                               *)
VerifySignatureShareProof(proof, publicKeyShare, context) ==
  /\ proof.Challenge # 0
  /\ proof.Response # 0
  /\ IsOnCurve(proof.R)
  /\ IsOnCurve(publicKeyShare)
  /\ proof.Challenge = Challenge(proof.R, publicKeyShare, context)
  /\ ResponseFits(proof, publicKeyShare)
=============================================================================
