--------------------------- MODULE DemoArithmetic ---------------------------
(***************************************************************************)
(* The numbers of all of main: after the ECDSA demo it adds up secrets     *)
(* (demoSumComputation) and then shares and reconstructs one               *)
(* (demoSecretSharing).  Both work modulo a field prime.                   *)
(***************************************************************************)
EXTENDS ThresholdECDSA

CONSTANTS
  Prime,            \* ss.prime
  Secrets,          \* the secrets a node may start with
  SharingParties,   \* n of demoSecretSharing
  SharingThreshold  \* k of demoSecretSharing

ASSUME SharingAssumption ==
  /\ IsPrime(Prime)
  /\ SharingParties \in Nat
  /\ NumParties < Prime /\ SharingParties < Prime
  /\ Secrets \subseteq Nat
  /\ SharingThreshold \in 2 .. SharingParties

VARIABLES
  sumShare,   \* each node's result, as far as secrets were shared
  expected,   \* expectedSum: the secrets as they are when main adds them up
  sum,        \* the reconstructed sum
  secret,     \* the secret of demoSecretSharing, after Share
  shares      \* its shares

sharingVars == <<sumShare, expected, sum, secret, shares>>
vars == <<ecdsaVars, sharingVars>>

DemoInit ==
  /\ Init
  /\ sumShare = NoSum
  /\ expected = 0
  /\ sum = Nil
  /\ secret = Nil
  /\ shares = <<>>

(* main returns from the ECDSA demo, and does not look at its network again *)
(* before it stops it.                                                      *)
StartSum ==
  /\ pc = "verified"
  /\ pc' = "sum"
  /\ todo' = Parties
  /\ secretSum' = 0
  /\ keyShare' = NoSum
  /\ publicKey' = Infinity
  /\ nonceShare' = NoSum
  /\ hash' = 0
  /\ signature' = Nil
  /\ valid' = Nil
  /\ UNCHANGED <<dealt, proof, combined, sharingVars>>

(* Mutant of ReducedInPlace: Share works on a copy.                         *)
LeftAlone(value) == value

(* Share reduces the secret modulo the prime in place, and the caller holds *)
(* the same big.Int.                                                        *)
ReducedInPlace(value) == value % Prime

(* A node's turn in SecretSharingPhase; the sum of what every node receives *)
(* is its Compute.                                                          *)
ShareSecret(n) ==
  /\ pc = "sum"
  /\ n \in todo
  /\ \E value \in Secrets :
       \E coefficients \in Coefficients(value, Threshold, Prime) :
         /\ sumShare' = Received(sumShare, coefficients, Prime)
         /\ expected' = expected + ReducedInPlace(value)
  /\ todo' = todo \ {n}
  /\ UNCHANGED <<pc, dealt, secretSum, keyShare, publicKey, proof, nonceShare,
                 hash, signature, valid, combined, sum, secret, shares>>

(* ComputationPhase returns the results in map order, each with its node's  *)
(* x coordinate; main interpolates the first Threshold of them.             *)
ReconstructSum ==
  /\ pc = "sum"
  /\ todo = {}
  /\ \E order \in Injection(1 .. Threshold, Parties) :
       sum' = Reconstruct([x \in 1 .. Threshold |->
                             [X |-> order[x] + 1, Y |-> sumShare[order[x]]]], Prime)
  /\ pc' = "summed"
  /\ UNCHANGED <<todo, dealt, secretSum, keyShare, publicKey, proof, nonceShare,
                 hash, signature, valid, combined, sumShare, expected, secret, shares>>

(* demoSecretSharing up to its reconstructions.                             *)
ShareOne ==
  /\ pc = "summed"
  /\ \E value \in Secrets :
       \E coefficients \in Coefficients(value, SharingThreshold, Prime) :
         /\ secret' = ReducedInPlace(value)
         /\ shares' = Shares(coefficients, SharingParties, Prime)
  /\ pc' = "shared"
  /\ sumShare' = NoSum
  /\ expected' = 0
  /\ sum' = Nil
  /\ UNCHANGED <<todo, dealt, secretSum, keyShare, publicKey, proof, nonceShare,
                 hash, signature, valid, combined>>

Next ==
  \/ ECDSANext /\ UNCHANGED sharingVars
  \/ StartSum
  \/ \E n \in todo : ShareSecret(n)
  \/ ReconstructSum
  \/ ShareOne

Spec == DemoInit /\ [][Next]_vars
-----------------------------------------------------------------------------
TypeOK ==
  /\ pc \in {"sum", "summed", "shared"} \/ ECDSATypeOK
  /\ sumShare \in [Parties -> 0 .. Prime - 1]
  /\ expected \in 0 .. NumParties * Prime
  /\ sum \in 0 .. Prime - 1 \cup {Nil}
  /\ secret \in 0 .. Prime - 1 \cup {Nil}
  /\ \A i \in DOMAIN shares : shares[i].X = i /\ shares[i].Y \in 0 .. Prime - 1

(* The results, whichever Threshold of them come first and in which order,  *)
(* interpolate to the expected sum exactly if that is less than the prime:  *)
(* main does not reduce it.  (demoSumComputation, Share, Reconstruct.)      *)
SumMatchesBelowPrime == pc = "summed" => (sum = expected <=> expected < Prime)

(* Whichever k or more shares demoSecretSharing takes, in whichever order,  *)
(* they reconstruct the secret main compares with, also one that was not    *)
(* below the prime.  ("Any k shares work for reconstruction!")              *)
AnySharesReconstruct ==
  pc = "shared" =>
    \A size \in SharingThreshold .. SharingParties :
      \A order \in Injection(1 .. size, 1 .. SharingParties) :
        Reconstruct([x \in 1 .. size |-> shares[order[x]]], Prime) = secret

(* Any k - 1 shares are consistent with every secret, and with each in the  *)
(* same number of ways: one.  (Share: k coefficients, x from 1.)            *)
FewerSharesTellNothing ==
  pc = "shared" =>
    \A known \in SUBSET (1 .. SharingParties) :
      Cardinality(known) = SharingThreshold - 1 =>
        \A guess \in 0 .. Prime - 1 :
          \E one \in Coefficients(guess, SharingThreshold, Prime) :
            {c \in Coefficients(guess, SharingThreshold, Prime) :
               \A i \in known : Shares(c, SharingParties, Prime)[i] = shares[i]} = {one}
=============================================================================
