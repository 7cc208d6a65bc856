--------------------------- MODULE ThresholdECDSA ---------------------------
(***************************************************************************)
(* The numbers of the ECDSA demo.  DKG and Signing keep track of which     *)
(* shares are added up, in which order and by whom; this module computes   *)
(* with them, on a network that is the parties, without delays.  A key     *)
(* share accumulates as the dealers take their turns.                      *)
(*                                                                         *)
(* Beside the phases main runs, a caller may use what main does not: prove *)
(* a signature share (schnorr.go), or sign with the methods of NodeSigning *)
(* from ComputeR to CombineSignatureShares.                                *)
(***************************************************************************)
EXTENDS PedersenVSS, Schnorr

CONSTANTS
  NumParties,
  Threshold,
  Hashes,      \* the values SHA-256 may give
  Responses,   \* the responses someone may claim in a proof
  Nil

ASSUME PartiesAssumption ==
  /\ NumParties \in Nat /\ NumParties < Order
  /\ Threshold \in 2 .. NumParties
  /\ Hashes \subseteq Nat
  /\ Responses \subseteq Nat

Parties == 0 .. NumParties - 1

VARIABLES
  pc,               \* where main is
  todo,             \* the nodes the current loop has left
  dealt,            \* the latest dealer and its polynomial
  secretSum,        \* sum of the dealers' secrets: no node knows it
  keyShare,         \* each node's privateKeyShare, as far as dealt
  publicKey,        \* node 0's sharedPublicKey
  proof,            \* a proof of a signature share, its key and context
  nonceShare,       \* each node's share of the nonce, as far as dealt
  hash,             \* the message's hash
  signature,        \* [r, s] of SignPhase
  valid,            \* what VerifyWithCurve said of it
  combined          \* r and the sum of SignatureShares, by node

ecdsaVars == <<pc, todo, dealt, secretSum, keyShare, publicKey, proof,
               nonceShare, hash, signature, valid, combined>>

NoSum == [n \in Parties |-> 0]

Init ==
  /\ pc = "deal"
  /\ todo = Parties
  /\ dealt = Nil
  /\ secretSum = 0
  /\ keyShare = NoSum
  /\ publicKey = Infinity
  /\ proof = Nil
  /\ nonceShare = NoSum
  /\ hash = 0
  /\ signature = Nil
  /\ valid = Nil
  /\ combined = Nil

SumOver(f, m) == SumFunction(f) % m

(* What the nodes have got after one more dealer's shares reached them.     *)
Received(sums, coefficients, m) ==
  [n \in Parties |-> (sums[n] + Shares(coefficients, NumParties, m)[n + 1].Y) % m]
-----------------------------------------------------------------------------
(* A node's turn in phase 1 of DKGPhase: coefficients and shares.  The      *)
(* randomness in the commitments is thrown away at once, and the            *)
(* commitments are only looked at by VerifyShare: see OneShareAccepted.     *)
GenerateSecretShare(n) ==
  /\ pc = "deal"
  /\ n \in todo
  /\ \E secret \in Scalar :
       \E coefficients \in Coefficients(secret, Threshold, Order) :
         /\ dealt' = [dealer |-> n, coefficients |-> coefficients]
         /\ keyShare' = Received(keyShare, coefficients, Order)
         /\ secretSum' = (secretSum + secret) % Order
  /\ todo' = todo \ {n}
  /\ UNCHANGED <<pc, publicKey, proof, nonceShare, hash, signature, valid, combined>>

(* VerifyShare of dkg.go: the commitments of the dealer fromID are looked   *)
(* up, and the index is the dealer's.                                       *)
DKGVerifyShare(fromID, share, commitments) ==
  VerifyShare(share, fromID + 1, commitments)

(* ComputePublicKeyShare of every node and CombinePublicKeyShares.  What    *)
(* the last dealer committed to is not looked at again.                     *)
CombinePublicKeyShares ==
  /\ pc = "deal"
  /\ todo = {}
  /\ publicKey' = FoldFunction(Add, Infinity,
                               [n \in Parties |-> ScalarBaseMult(keyShare[n])])
  /\ pc' = "nonce"
  /\ todo' = Parties
  /\ dealt' = Nil
  /\ UNCHANGED <<secretSum, keyShare, proof, nonceShare, hash, signature, valid, combined>>

(* A node proves that it knows its key share, in the context of some r,     *)
(* hash and signature share.                                                *)
ProveShare(n) ==
  /\ pc = "nonce"
  /\ todo = Parties
  /\ \E r \in {Abscissa(P) : P \in CurvePoints}, h \in Hashes, s \in Scalar, random \in Scalar :
       LET context == ShareContext(r, h, s)
       IN proof' = [node |-> n, context |-> context,
                    proof |-> ProveSignatureShare(keyShare[n], context, random)]
  /\ pc' = "proved"
  /\ UNCHANGED <<todo, dealt, secretSum, keyShare, publicKey, nonceShare, hash,
                 signature, valid, combined>>

(* A node's turn in the loop of SignPhase that deals the nonce shares.      *)
GenerateNonceShare(n) ==
  /\ pc = "nonce"
  /\ n \in todo
  /\ \E nonce \in Scalar :
       \E coefficients \in Coefficients(nonce, Threshold, Order) :
         nonceShare' = Received(nonceShare, coefficients, Order)
  /\ todo' = todo \ {n}
  /\ UNCHANGED <<pc, dealt, secretSum, keyShare, publicKey, proof, hash,
                 signature, valid, combined>>

(* The first Threshold entries of nonceShares, which is in map order, with  *)
(* the x coordinates 1, 2, ...                                              *)
NoncePoints(order) == [x \in 1 .. Threshold |-> [X |-> x, Y |-> nonceShare[order[x]]]]

(* Mutant of SignatureShare: every node adds the hash, as the formula       *)
(* k^-1 * (h + r * d_i) of threshold.go has it.                             *)
SignatureShareWithHash(n, kInv, r, h) == (kInv * (h + r * keyShare[n])) % Order

SignatureShare(n, kInv, r, h) == (kInv * ((r * keyShare[n]) % Order)) % Order

(* The rest of SignPhase: k, r, the signature shares, and s.                *)
Sign ==
  /\ pc = "nonce"
  /\ todo = {}
  /\ \E order \in Injection(1 .. Threshold, Parties), messageHash \in Hashes :
       LET k == Reconstruct(NoncePoints(order), Order)
           kInv == ModInverse(k, Order)
           r == Abscissa(ScalarBaseMult(k))
           h == messageHash % Order
           shares == [n \in Parties |-> SignatureShare(n, kInv, r, h)]
       IN /\ k # 0
          /\ hash' = messageHash
          /\ signature' = [r |-> r, s |-> (SumOver(shares, Order) + kInv * h) % Order]
  /\ pc' = "signed"
  /\ UNCHANGED <<todo, dealt, secretSum, keyShare, publicKey, proof, nonceShare,
                 valid, combined>>

(* k = 0 has no inverse: SignPhase returns an error and main exits.         *)
SignFails ==
  /\ pc = "nonce"
  /\ todo = {}
  /\ \E order \in Injection(1 .. Threshold, Parties) :
       Reconstruct(NoncePoints(order), Order) = 0
  /\ pc' = "failed"
  /\ UNCHANGED <<todo, dealt, secretSum, keyShare, publicKey, proof, nonceShare,
                 hash, signature, valid, combined>>

(* main verifies the signature.                                             *)
Verify ==
  /\ pc = "signed"
  /\ signature.s # 0
  /\ valid' = VerifyWithCurve(publicKey, hash, signature.r, signature.s)
  /\ pc' = "verified"
  /\ UNCHANGED <<todo, dealt, secretSum, keyShare, publicKey, proof, nonceShare,
                 hash, signature, combined>>

(* The inverse of s = 0 is nil, and multiplying by it panics.               *)
VerifyPanics ==
  /\ pc = "signed"
  /\ signature.s = 0
  /\ pc' = "panicked"
  /\ UNCHANGED <<todo, dealt, secretSum, keyShare, publicKey, proof, nonceShare,
                 hash, signature, valid, combined>>
-----------------------------------------------------------------------------
(* The other way to sign.  Each node computes R_i = k_i * G (ComputeR), and *)
(* CombineRPoints adds the points up and keeps r.                           *)
CombineRPoints ==
  /\ pc = "nonce"
  /\ todo = {}
  /\ LET R == FoldFunction(Add, Infinity,
                           [n \in Parties |-> ScalarBaseMult(nonceShare[n])])
     IN combined' = [r |-> Abscissa(R), SignatureShares |-> <<>>, s |-> Nil]
  /\ \E messageHash \in Hashes : hash' = messageHash
  /\ pc' = "combine"
  /\ todo' = Parties
  /\ UNCHANGED <<dealt, secretSum, keyShare, publicKey, proof, nonceShare,
                 signature, valid>>

(* ComputeSignatureShare of node n, and ReceiveSignatureShare where the     *)
(* shares are combined.                                                     *)
ReceiveSignatureShare(n) ==
  /\ pc = "combine"
  /\ n \in todo
  /\ combined' = [combined EXCEPT !.SignatureShares =
       [i \in {n} \cup DOMAIN @ |->
          IF i = n THEN (hash + combined.r * keyShare[n]) % Order ELSE @[i]]]
  /\ todo' = todo \ {n}
  /\ UNCHANGED <<pc, dealt, secretSum, keyShare, publicKey, proof, nonceShare,
                 hash, signature, valid>>

AllShares == Cardinality(DOMAIN combined.SignatureShares) >= NumParties

(* The error return leaves everything as it was.                            *)
CombineSignatureShares ==
  /\ pc = "combine"
  /\ AllShares
  /\ combined' = [combined EXCEPT !.s = SumOver(combined.SignatureShares, Order)]
  /\ pc' = "combined"
  /\ UNCHANGED <<todo, dealt, secretSum, keyShare, publicKey, proof, nonceShare,
                 hash, signature, valid>>

ECDSANext ==
  \/ \E n \in todo : GenerateSecretShare(n) \/ GenerateNonceShare(n) \/ ReceiveSignatureShare(n)
  \/ CombinePublicKeyShares
  \/ \E n \in Parties : ProveShare(n)
  \/ Sign
  \/ SignFails
  \/ Verify
  \/ VerifyPanics
  \/ CombineRPoints
  \/ CombineSignatureShares
-----------------------------------------------------------------------------
ECDSATypeOK ==
  /\ pc \in {"deal", "nonce", "proved", "signed", "verified", "failed", "panicked",
             "combine", "combined"}
  /\ todo \subseteq Parties
  /\ dealt # Nil => dealt.dealer \in Parties \ todo
  /\ secretSum \in Scalar
  /\ keyShare \in [Parties -> Scalar]
  /\ publicKey \in CurvePoints
  /\ nonceShare \in [Parties -> Scalar]
  /\ signature # Nil => signature.r \in Scalar /\ signature.s \in Scalar
  /\ valid \in BOOLEAN \cup {Nil}
  /\ combined # Nil => combined.s \in Scalar \cup {Nil}

(* The key shares, each at its node's own x coordinate, are a Threshold out *)
(* of NumParties sharing of the sum of the dealers' secrets: any Threshold  *)
(* or more of them, in any order, interpolate to it.  (GenerateSecretShare, *)
(* ComputeSharedPrivateKey, Reconstruct.)                                   *)
KeySharesRecoverSecrets ==
  pc = "nonce" /\ todo = Parties =>
    \A size \in Threshold .. NumParties :
      \A order \in Injection(1 .. size, Parties) :
        Reconstruct([x \in 1 .. size |->
                       [X |-> order[x] + 1, Y |-> keyShare[order[x]]]], Order)
          = secretSum

(* What "Shared private key: d = Sum s_i" says: the public key belongs to   *)
(* the sum of the nodes' secrets.                                           *)
KeyIsSumOfSecrets == pc = "nonce" => publicKey = ScalarBaseMult(secretSum)

(* DKGVerifyShare accepts one value per dealer, whoever asks: the dealer's  *)
(* polynomial at the dealer's own x coordinate plus twice the blinding      *)
(* polynomial there, and nothing at all when a commitment happens to be     *)
(* the point at infinity.  (VerifyShare of dkg.go and of commitments.go.)   *)
OneShareAccepted ==
  dealt # Nil =>
    \A randomness \in [1 .. Threshold -> Scalar] :
      LET commitments == CommitPolynomial(dealt.coefficients, randomness)
          At(coefficients) == EvaluatePolynomial(coefficients, dealt.dealer + 1, Order)
      IN {y \in 0 .. 2 * Order : DKGVerifyShare(dealt.dealer, y, commitments)}
           = IF \E i \in DOMAIN commitments : commitments[i] = Infinity
               THEN {}
               ELSE {(At(dealt.coefficients) + 2 * At(randomness)) % Order}

(* What "VerifyShare verifies that a received share is consistent with      *)
(* commitments" says: a recipient accepts the share an honest dealer sent   *)
(* it, even leaving aside commitments that are at infinity.                 *)
HonestShareVerifies ==
  dealt # Nil =>
    \A randomness \in [1 .. Threshold -> Scalar] :
      LET commitments == CommitPolynomial(dealt.coefficients, randomness)
      IN (\A i \in DOMAIN commitments : IsOnCurve(commitments[i])) =>
           \A n \in Parties \ {dealt.dealer} :
             DKGVerifyShare(dealt.dealer,
                            Shares(dealt.coefficients, NumParties, Order)[n + 1].Y,
                            commitments)

(* The verification main runs succeeds for every key, nonce and message,    *)
(* in whichever order the nonce shares were collected, unless the hash is   *)
(* 0 modulo the order.  (SignPhase uses it as it is, VerifyWithCurve takes  *)
(* 1 instead; r = 0 and a public key at infinity do no harm.)               *)
VerificationSucceeds == pc = "verified" /\ hash % Order # 0 => valid

(* With an honest prover's R and challenge, VerifyProof accepts exactly the *)
(* responses congruent to the honest one modulo the order, whatever nonce   *)
(* and challenge came up and also for a key share 0.  It has no range       *)
(* check: the response plus the order passes as well.  (ProveKnowledge,     *)
(* VerifyProof.)                                                            *)
OnlyTrueResponse ==
  proof # Nil =>
    \A z \in Responses :
      VerifyProof([proof.proof EXCEPT !.Response = z],
                  ScalarBaseMult(keyShare[proof.node]), proof.context)
        <=> z % Order = proof.proof.Response

(* An honest proof of a signature share is rejected exactly when its        *)
(* response is 0, its R is at infinity or the key share is 0, which the     *)
(* prover does not avoid; a zero challenge it does avoid.                   *)
(* (ProveSignatureShare, VerifySignatureShareProof.)                        *)
HonestProofRejectedAtEdges ==
  proof # Nil =>
    (VerifySignatureShareProof(proof.proof, ScalarBaseMult(keyShare[proof.node]),
                               proof.context)
       <=> /\ proof.proof.Response # 0
           /\ proof.proof.R # Infinity
           /\ keyShare[proof.node] # 0)

(* What CombineSignatureShares adds up, once multiplied with k^-1 as the    *)
(* note in ComputeSignatureShare leaves to the caller, signs message.       *)
CombinedSigns(message) ==
  LET k == SumOver(nonceShare, Order)
      s == combined.s * ModInverse(k, Order)
  IN k # 0 /\ combined.s # 0 /\ message % Order # 0 =>
       VerifyWithCurve(publicKey, message, combined.r, s)

(* What "The correct formula is: s_i = k^(-1) * (h + r * d_i) mod n" and    *)
(* "CombineSignatureShares combines signature shares to get final signature *)
(* component s" say: the sum of those shares signs the message.             *)
MethodsSignHash == pc = "combined" => CombinedSigns(hash)

(* What the methods of NodeSigning do instead: every node's share contains  *)
(* the hash once, so that their sum signs NumParties times the hash.        *)
(* (ComputeR, CombineRPoints, ComputeSignatureShare,                        *)
(* CombineSignatureShares.)                                                 *)
MethodsSignScaledHash == pc = "combined" => CombinedSigns(NumParties * hash)

(* What "you need threshold+1 shares to reconstruct" says: after Threshold  *)
(* of a dealer's shares every secret is still possible, for the polynomials *)
(* with as many coefficients as it drew.                                    *)
ThresholdSharesTellNothing ==
  dealt # Nil =>
    LET Sent(coefficients) == Shares(coefficients, NumParties, Order)
    IN \A known \in SUBSET Parties : Cardinality(known) = Threshold =>
         \A guess \in Scalar : \E c \in [DOMAIN dealt.coefficients -> Scalar] :
           /\ c[1] = guess
           /\ \A n \in known : Sent(c)[n + 1] = Sent(dealt.coefficients)[n + 1]
=============================================================================
